---- MODULE Spec2Model ----
(***************************************************************************)
(* A model of the rschip8 core: Memory, Quirks, the Instruction decoder,   *)
(* the CPU (step / execute / tick_timers) and the Chip8 machine (tick,     *)
(* breakpoints, halt / resume, key events).                                *)
(*                                                                         *)
(* Representation notes.                                                   *)
(*  - Memory.memory ([u8; 0x1000]) is kept as the function of the cells    *)
(*    written since Memory::reset; an unwritten cell reads as the reset    *)
(*    contents (fonts, then zeros).  read/write mask the address & 0xfff.  *)
(*  - CPU.vram (Vec<bool>) is kept as its length and the set of indices    *)
(*    holding true.                                                        *)
(*  - u8 / u16 arithmetic that the code lets wrap is taken modulo 2^8 /    *)
(*    2^16.                                                                *)
(***************************************************************************)
EXTENDS Integers, Sequences, FiniteSets, TLC

(***************************************************************************)
(* Bounds of the model.                                                    *)
(***************************************************************************)
\* Value of V0 at which the recursive program ProgRecurse stops calling
\* itself: it nests MaxStack - 1 calls (the Vec<u16> stack is unbounded).
MaxStack == 3
\* Number of breakpoint addresses the debugger may set, counted in
\* instructions from the entry point 0x200.
MaxBp == 2
\* Number of keys the front end may press or release (keys 0 .. MaxKey-1,
\* plus one out-of-range code that the & 0xf mask folds back).
MaxKey == 1

(***************************************************************************)
(* Bit helpers (the code uses &, |, ^, << and >> on u8 / u16).             *)
(***************************************************************************)
RECURSIVE BitAnd(_, _)
BitAnd(a, b) ==
    IF a = 0 \/ b = 0 THEN 0
    ELSE (IF a % 2 = 1 /\ b % 2 = 1 THEN 1 ELSE 0) + 2 * BitAnd(a \div 2, b \div 2)

RECURSIVE BitOr(_, _)
BitOr(a, b) ==
    IF a = 0 THEN b
    ELSE IF b = 0 THEN a
    ELSE (IF a % 2 = 1 \/ b % 2 = 1 THEN 1 ELSE 0) + 2 * BitOr(a \div 2, b \div 2)

RECURSIVE BitXor(_, _)
BitXor(a, b) ==
    IF a = 0 THEN b
    ELSE IF b = 0 THEN a
    ELSE (IF a % 2 # b % 2 THEN 1 ELSE 0) + 2 * BitXor(a \div 2, b \div 2)

\* 2^n
RECURSIVE Pow2(_)
Pow2(n) == IF n = 0 THEN 1 ELSE 2 * Pow2(n - 1)

\* wrapping u8 and u16 results
U8(x) == x % 256
U16(x) == x % 65536

(***************************************************************************)
(* memory.rs                                                               *)
(***************************************************************************)
FONT_5_5 ==
    << 240, 144, 144, 144, 240,    32,  96,  32,  32, 112,
       240,  16, 240, 128, 240,   240,  16, 240,  16, 240,
       144, 144, 240,  16,  16,   240, 128, 240,  16, 240,
       240, 128, 240, 144, 240,   240,  16,  32,  64,  64,
       240, 144, 240, 144, 240,   240, 144, 240,  16, 240,
       240, 144, 240, 144, 144,   224, 144, 224, 144, 224,
       240, 128, 128, 128, 240,   224, 144, 144, 144, 224,
       240, 128, 240, 128, 240,   240, 128, 240, 128, 128 >>

FONT_10_10 ==
    <<  60, 126, 231, 195, 195, 195, 195, 231, 126,  60,
        24,  56,  88,  24,  24,  24,  24,  24,  24,  60,
        62, 127, 195,   6,  12,  24,  48,  96, 255, 255,
        60, 126, 195,   3,  14,  14,   3, 195, 126,  60,
         6,  14,  30,  54, 102, 198, 255, 255,   6,   6,
       255, 255, 192, 192, 252, 254,   3, 195, 126,  60,
        62, 124, 224, 192, 252, 254, 195, 195, 126,  60,
       255, 255,   3,   6,  12,  24,  48,  96,  96,  96,
        60, 126, 195, 195, 126, 126, 195, 195, 126,  60,
        60, 126, 195, 195, 127,  63,   3,   3,  62, 124,
       126, 255, 195, 195, 195, 255, 255, 195, 195, 195,
       252, 252, 195, 195, 252, 252, 195, 195, 252, 252,
        60, 255, 195, 192, 192, 192, 192, 195, 255,  60,
       252, 254, 195, 195, 195, 195, 195, 195, 254, 252,
       255, 255, 192, 192, 255, 255, 192, 192, 255, 255,
       255, 255, 192, 192, 255, 255, 192, 192, 192, 192 >>

\* faulty variant of MemReset: reset leaves no font in memory
MemResetBlank(a) == 0

\* Memory::reset: the contents of cell a (0 <= a < 0x1000) after a reset
MemReset(a) ==
    IF a < 80 THEN FONT_5_5[a + 1]
    ELSE IF a < 240 THEN FONT_10_10[a - 80 + 1]
    ELSE 0

\* Memory::new: no cell written yet
MemNew == << >>

\* faulty variant of MemRead: the address is used as it comes, so a cell
\* beyond 0xFFF reads as never written
MemReadUnmasked(m, addr) ==
    IF addr \in DOMAIN m THEN m[addr] ELSE IF addr < 4096 THEN MemReset(addr) ELSE 0

\* Memory::read
MemRead(m, addr) ==
    LET a == addr % 4096
    IN  IF a \in DOMAIN m THEN m[a] ELSE MemReset(a)

\* Memory::write
MemWrite(m, addr, byte) ==
    LET a == addr % 4096
    IN  [c \in (DOMAIN m) \cup {a} |-> IF c = a THEN byte ELSE m[c]]

\* Memory::load_program: program is a sequence of bytes, copied to 0x200..
MemLoadProgram(m, program) ==
    [c \in (DOMAIN m) \cup {512 + k - 1 : k \in 1..Len(program)} |->
        IF c >= 512 /\ c < 512 + Len(program) THEN program[c - 512 + 1] ELSE m[c]]

(***************************************************************************)
(* quirks.rs                                                               *)
(***************************************************************************)
QuirksChip8 ==
    [vf_reset |-> TRUE, memory |-> TRUE, display_wait |-> TRUE,
     sprite_wrapping |-> FALSE, hires_draw_flag |-> FALSE,
     shifting |-> FALSE, jumping |-> FALSE]

QuirksSuperchip ==
    [vf_reset |-> FALSE, memory |-> FALSE, display_wait |-> FALSE,
     sprite_wrapping |-> FALSE, hires_draw_flag |-> TRUE,
     shifting |-> TRUE, jumping |-> TRUE]

QuirksXochip ==
    [vf_reset |-> FALSE, memory |-> TRUE, display_wait |-> FALSE,
     sprite_wrapping |-> TRUE, hires_draw_flag |-> FALSE,
     shifting |-> FALSE, jumping |-> FALSE]

\* impl Default for Quirks
QuirksDefault == QuirksChip8

(***************************************************************************)
(* instruction.rs                                                          *)
(***************************************************************************)
\* Instruction values: the variant name and the operands it carries
Inst0(name) == [op |-> name]
InstN(name, n) == [op |-> name, n |-> n]
InstA(name, addr) == [op |-> name, addr |-> addr]
InstX(name, x) == [op |-> name, x |-> x]
InstXK(name, x, kk) == [op |-> name, x |-> x, kk |-> kk]
InstXY(name, x, y) == [op |-> name, x |-> x, y |-> y]
InstXA(name, x, addr) == [op |-> name, x |-> x, addr |-> addr]
\* faulty variant of InstXYN: the two register operands change places
InstXYNSwapped(name, x, y, n) == [op |-> name, x |-> y, y |-> x, n |-> n]

InstXYN(name, x, y, n) == [op |-> name, x |-> x, y |-> y, n |-> n]

\* the outcome of the `_ => panic!("Invalid opcode ...")` arm
InvalidOpcode == [op |-> "panic"]

\* faulty variant of Parse: the generic SYS arm is tried before the specific
\* 0x0-prefixed patterns, which it shadows (only the 0x0nnn arms are kept)
ParseSysFirst(op) ==
    IF op \div 4096 = 0 THEN InstA("SYS_addr", op % 4096) ELSE InvalidOpcode

\* Instruction::parse: the match arms in source order (first match wins)
Parse(op) ==
    LET n1 == (op \div 4096) % 16
        x == (op \div 256) % 16
        y == (op \div 16) % 16
        n == op % 16
        nnn == op % 4096
        kk == op % 256
    IN  IF n1 = 0 /\ x = 0 /\ y = 14 /\ n = 0 THEN Inst0("CLS")
        ELSE IF n1 = 0 /\ x = 0 /\ y = 14 /\ n = 14 THEN Inst0("RET")
        ELSE IF n1 = 0 /\ x = 0 /\ y = 15 /\ n = 11 THEN Inst0("SCR")
        ELSE IF n1 = 0 /\ x = 0 /\ y = 15 /\ n = 12 THEN Inst0("SCL")
        ELSE IF n1 = 0 /\ x = 0 /\ y = 15 /\ n = 13 THEN Inst0("EXIT")
        ELSE IF n1 = 0 /\ x = 0 /\ y = 15 /\ n = 14 THEN Inst0("LORES")
        ELSE IF n1 = 0 /\ x = 0 /\ y = 15 /\ n = 15 THEN Inst0("HIRES")
        ELSE IF n1 = 0 /\ x = 0 /\ y = 12 THEN InstN("SCD_n", n)
        ELSE IF n1 = 0 /\ x = 2 /\ y = 3 /\ n = 0 THEN Inst0("CLS")
        ELSE IF n1 = 0 THEN InstA("SYS_addr", nnn)
        ELSE IF n1 = 1 THEN InstA("JP_addr", nnn)
        ELSE IF n1 = 2 THEN InstA("CALL_addr", nnn)
        ELSE IF n1 = 3 THEN InstXK("SE_Vx_kk", x, kk)
        ELSE IF n1 = 4 THEN InstXK("SNE_Vx_kk", x, kk)
        ELSE IF n1 = 5 /\ n = 0 THEN InstXY("SE_Vx_Vy", x, y)
        ELSE IF n1 = 6 THEN InstXK("LD_Vx_kk", x, kk)
        ELSE IF n1 = 7 THEN InstXK("ADD_Vx_kk", x, kk)
        ELSE IF n1 = 8 /\ n = 0 THEN InstXY("LD_Vx_Vy", x, y)
        ELSE IF n1 = 8 /\ n = 1 THEN InstXY("OR_Vx_Vy", x, y)
        ELSE IF n1 = 8 /\ n = 2 THEN InstXY("AND_Vx_Vy", x, y)
        ELSE IF n1 = 8 /\ n = 3 THEN InstXY("XOR_Vx_Vy", x, y)
        ELSE IF n1 = 8 /\ n = 4 THEN InstXY("ADD_Vx_Vy", x, y)
        ELSE IF n1 = 8 /\ n = 5 THEN InstXY("SUB_Vx_Vy", x, y)
        ELSE IF n1 = 8 /\ n = 6 THEN InstXY("SHR_Vx_Vy", x, y)
        ELSE IF n1 = 8 /\ n = 7 THEN InstXY("SUBN_Vx_Vy", x, y)
        ELSE IF n1 = 8 /\ n = 14 THEN InstXY("SHL_Vx_Vy", x, y)
        ELSE IF n1 = 9 /\ n = 0 THEN InstXY("SNE_Vx_Vy", x, y)
        ELSE IF n1 = 10 THEN InstA("LD_I_addr", nnn)
        ELSE IF n1 = 11 THEN InstXA("JP_Vx_addr", x, nnn)
        ELSE IF n1 = 12 THEN InstXK("RND_Vx_kk", x, kk)
        ELSE IF n1 = 13 THEN InstXYN("DRW_Vx_Vy_n", x, y, n)
        ELSE IF n1 = 14 /\ y = 9 /\ n = 14 THEN InstX("SKP_Vx", x)
        ELSE IF n1 = 14 /\ y = 10 /\ n = 1 THEN InstX("SKNP_Vx", x)
        ELSE IF n1 = 15 /\ y = 0 /\ n = 7 THEN InstX("LD_Vx_DT", x)
        ELSE IF n1 = 15 /\ y = 0 /\ n = 10 THEN InstX("LD_Vx_K", x)
        ELSE IF n1 = 15 /\ y = 1 /\ n = 5 THEN InstX("LD_DT_Vx", x)
        ELSE IF n1 = 15 /\ y = 1 /\ n = 8 THEN InstX("LD_ST_Vx", x)
        ELSE IF n1 = 15 /\ y = 1 /\ n = 14 THEN InstX("ADD_I_Vx", x)
        ELSE IF n1 = 15 /\ y = 3 /\ n = 3 THEN InstX("LD_B_Vx", x)
        ELSE IF n1 = 15 /\ y = 5 /\ n = 5 THEN InstX("LD_iI_Vx", x)
        ELSE IF n1 = 15 /\ y = 6 /\ n = 5 THEN InstX("LD_Vx_iI", x)
        ELSE IF n1 = 15 /\ y = 2 /\ n = 9 THEN InstX("LD_F_Vx", x)
        ELSE IF n1 = 15 /\ y = 3 /\ n = 0 THEN InstX("LD_HF_Vx", x)
        ELSE IF n1 = 15 /\ y = 7 /\ n = 5 THEN InstX("SAVE_Vx", x)
        ELSE IF n1 = 15 /\ y = 8 /\ n = 5 THEN InstX("LOAD_Vx", x)
        ELSE InvalidOpcode

(***************************************************************************)
(* cpu.rs                                                                  *)
(***************************************************************************)
\* CPU::new, with the quirks and clock_speed fields as configured afterwards
\* (both are pub fields the front end assigns before running)
CpuNew(quirks, clock_speed) ==
    [quirks |-> quirks,
     clock_speed |-> clock_speed,
     running |-> TRUE,
     hires |-> FALSE,
     memory |-> MemNew,
     keys |-> [k \in 0..15 |-> FALSE],
     pc |-> 512,
     i |-> 0,
     vx |-> [r \in 0..15 |-> 0],
     dt |-> 0,
     st |-> 0,
     stack |-> << >>,
     save |-> [r \in 0..7 |-> 0],
     width |-> 64,
     height |-> 32,
     vram |-> [len |-> 64 * 32, lit |-> {}]]

\* CPU::keydown
CpuKeydown(c, key) == [c EXCEPT !.keys[key % 16] = TRUE]

\* CPU::keyup
CpuKeyup(c, key) == [c EXCEPT !.keys[key % 16] = FALSE]

\* CPU::push
Push(c, v) == [c EXCEPT !.stack = Append(@, v)]

\* CPU::pop: the popped value (unwrap_or(0)) and the cpu after the pop
PopValue(c) == IF Len(c.stack) = 0 THEN 0 ELSE c.stack[Len(c.stack)]
PopCpu(c) ==
    IF Len(c.stack) = 0 THEN c
    ELSE [c EXCEPT !.stack = SubSeq(@, 1, Len(@) - 1)]

\* faulty variant of TickTimers: only the sound timer is decremented
TickTimersSoundOnly(c) == [c EXCEPT !.st = IF @ > 0 THEN @ - 1 ELSE @]

\* CPU::tick_timers
TickTimers(c) ==
    [c EXCEPT !.st = IF @ > 0 THEN @ - 1 ELSE @,
              !.dt = IF @ > 0 THEN @ - 1 ELSE @]

\* faulty variant of FirstKey: the highest held key is reported
FirstKeyHighest(keys) ==
    IF \E k \in 0..15 : keys[k]
    THEN CHOOSE k \in 0..15 : keys[k] /\ \A j \in (k + 1)..15 : ~keys[j]
    ELSE 16

\* keys.iter().position(|v| *v): the lowest held key, or 16 for None
FirstKey(keys) ==
    IF \E k \in 0..15 : keys[k]
    THEN CHOOSE k \in 0..15 : keys[k] /\ \A j \in 0..(k - 1) : ~keys[j]
    ELSE 16

\* faulty variant of VramResize: the buffer keeps its length
VramResizeKeepsLen(v, n) == v

\* Vec::resize(n, false) on the video buffer: cells below n keep their value
VramResize(v, n) == [len |-> n, lit |-> {k \in v.lit : k < n}]

\* faulty variant of ExecJP: no infinite-loop detection
ExecJPNoDetect(c, addr) == [c EXCEPT !.pc = addr]

\* faulty variant of ExecJP: the target is compared with the incremented pc itself
ExecJPPostInc(c, addr) ==
    [c EXCEPT !.running = IF c.pc = addr THEN FALSE ELSE @,
              !.pc = addr]

\* the JP_addr arm of CPU::execute
ExecJP(c, addr) ==
    [c EXCEPT !.running = IF c.pc = addr + 2 THEN FALSE ELSE @,
              !.pc = addr]

\* faulty variant of ExecCALL: the address of the CALL itself is pushed
ExecCALLPushesSite(c, addr) == [Push(c, c.pc - 2) EXCEPT !.pc = addr]

\* the CALL_addr arm of CPU::execute
ExecCALL(c, addr) == [Push(c, c.pc) EXCEPT !.pc = addr]

\* faulty variant of ExecRET: a RET with nothing to return to stops the CPU
ExecRETFaults(c) ==
    IF Len(c.stack) = 0 THEN [c EXCEPT !.running = FALSE]
    ELSE [PopCpu(c) EXCEPT !.pc = PopValue(c)]

\* the RET arm of CPU::execute
ExecRET(c) == [PopCpu(c) EXCEPT !.pc = PopValue(c)]

\* faulty variant of StoreRegs: the range stops short of Vx
RECURSIVE StoreRegsExclusive(_, _, _, _)
StoreRegsExclusive(m, c, k, x) ==
    IF k >= x THEN m
    ELSE StoreRegsExclusive(MemWrite(m, U16(c.i + k), c.vx[k]), c, k + 1, x)

\* the LD_iI_Vx arm: registers V0..Vx written to memory from I, in order
RECURSIVE StoreRegs(_, _, _, _)
StoreRegs(m, c, k, x) ==
    IF k > x THEN m
    ELSE StoreRegs(MemWrite(m, U16(c.i + k), c.vx[k]), c, k + 1, x)

\* the arithmetic, logic and load arms of CPU::execute
ExecALU(c, inst) ==
    LET op == inst.op
        vx == c.vx
    IN  CASE op = "LD_Vx_kk" -> [c EXCEPT !.vx[inst.x] = inst.kk]
          [] op = "LD_Vx_Vy" -> [c EXCEPT !.vx[inst.x] = vx[inst.y]]
          [] op = "LD_I_addr" -> [c EXCEPT !.i = inst.addr]
          [] op = "LD_DT_Vx" -> [c EXCEPT !.dt = vx[inst.x]]
          [] op = "LD_ST_Vx" -> [c EXCEPT !.st = vx[inst.x]]
          [] op = "LD_Vx_DT" -> [c EXCEPT !.vx[inst.x] = c.dt]
          [] op = "LD_iI_Vx" ->
                [c EXCEPT !.memory = StoreRegs(@, c, 0, inst.x),
                          !.i = IF c.quirks.memory THEN U16(@ + inst.x + 1) ELSE @]
          [] op = "LD_Vx_iI" ->
                [c EXCEPT !.vx = [r \in 0..15 |->
                                    IF r <= inst.x
                                    THEN MemRead(c.memory, U16(c.i + r))
                                    ELSE vx[r]],
                          !.i = IF c.quirks.memory THEN U16(@ + inst.x + 1) ELSE @]
          [] op = "LD_B_Vx" ->
                [c EXCEPT !.memory =
                    MemWrite(MemWrite(MemWrite(@,
                        U16(c.i + 0), (vx[inst.x] \div 100) % 10),
                        U16(c.i + 1), (vx[inst.x] \div 10) % 10),
                        U16(c.i + 2), vx[inst.x] % 10)]
          [] op = "ADD_Vx_kk" -> [c EXCEPT !.vx[inst.x] = U8(@ + inst.kk)]
          [] op = "ADD_I_Vx" ->
                LET s == U16(c.i + vx[inst.x])
                IN  [c EXCEPT !.vx[15] = IF s > 4095 THEN 1 ELSE 0,
                              !.i = s % 4096]
          [] op = "ADD_Vx_Vy" ->
                LET s == vx[inst.x] + vx[inst.y]
                IN  [c EXCEPT !.vx[inst.x] = U8(s),
                              !.vx[15] = IF s > 255 THEN 1 ELSE 0]
          [] op = "AND_Vx_Vy" ->
                [c EXCEPT !.vx[inst.x] = BitAnd(@, vx[inst.y]),
                          !.vx[15] = IF c.quirks.vf_reset THEN 0 ELSE @]
          [] op = "OR_Vx_Vy" ->
                [c EXCEPT !.vx[inst.x] = BitOr(@, vx[inst.y]),
                          !.vx[15] = IF c.quirks.vf_reset THEN 0 ELSE @]
          [] op = "XOR_Vx_Vy" ->
                [c EXCEPT !.vx[inst.x] = BitXor(@, vx[inst.y]),
                          !.vx[15] = IF c.quirks.vf_reset THEN 0 ELSE @]
          [] op = "SUB_Vx_Vy" ->
                LET borrow == vx[inst.x] < vx[inst.y]
                IN  [c EXCEPT !.vx[inst.x] = U8(256 + vx[inst.x] - vx[inst.y]),
                              !.vx[15] = IF borrow THEN 0 ELSE 1]
          [] op = "SUBN_Vx_Vy" ->
                LET borrow == vx[inst.y] < vx[inst.x]
                IN  [c EXCEPT !.vx[inst.x] = U8(256 + vx[inst.y] - vx[inst.x]),
                              !.vx[15] = IF borrow THEN 0 ELSE 1]
          [] op = "SHL_Vx_Vy" ->
                LET v == IF ~c.quirks.shifting THEN vx[inst.y] ELSE vx[inst.x]
                    overflow == BitAnd(v, 128) > 0
                IN  [c EXCEPT !.vx[inst.x] = U8(v * 2),
                              !.vx[15] = IF overflow THEN 1 ELSE 0]
          [] op = "SHR_Vx_Vy" ->
                LET v == IF ~c.quirks.shifting THEN vx[inst.y] ELSE vx[inst.x]
                    underflow == BitAnd(v, 1) > 0
                IN  [c EXCEPT !.vx[inst.x] = v \div 2,
                              !.vx[15] = IF underflow THEN 1 ELSE 0]
          [] op = "LD_F_Vx" -> [c EXCEPT !.i = 5 * vx[inst.x]]
          [] op = "LD_HF_Vx" -> [c EXCEPT !.i = 80 + 10 * vx[inst.x]]
          [] op = "SAVE_Vx" ->
                LET top == IF inst.x < 7 THEN inst.x ELSE 7
                IN  [c EXCEPT !.save = [r \in 0..7 |-> IF r <= top THEN vx[r] ELSE @[r]]]
          [] op = "LOAD_Vx" ->
                LET top == IF inst.x < 7 THEN inst.x ELSE 7
                IN  [c EXCEPT !.vx = [r \in 0..15 |-> IF r <= top THEN c.save[r] ELSE @[r]]]

\* the skip and key-input arms of CPU::execute
ExecSkip(c, inst) ==
    LET op == inst.op
        vx == c.vx
        skip == [c EXCEPT !.pc = U16(@ + 2)]
    IN  CASE op = "SE_Vx_kk" -> IF vx[inst.x] = inst.kk THEN skip ELSE c
          [] op = "SNE_Vx_kk" -> IF vx[inst.x] # inst.kk THEN skip ELSE c
          [] op = "SE_Vx_Vy" -> IF vx[inst.x] = vx[inst.y] THEN skip ELSE c
          [] op = "SNE_Vx_Vy" -> IF vx[inst.x] # vx[inst.y] THEN skip ELSE c
          [] op = "SKP_Vx" -> IF c.keys[vx[inst.x] % 16] THEN skip ELSE c
          [] op = "SKNP_Vx" -> IF ~c.keys[vx[inst.x] % 16] THEN skip ELSE c
          [] op = "LD_Vx_K" ->
                IF FirstKey(c.keys) < 16
                THEN [c EXCEPT !.vx[inst.x] = FirstKey(c.keys)]
                ELSE [c EXCEPT !.pc = U16(@ + 65536 - 2)]

\* bit `b` (0 = least significant) of `bits`
Bit(bits, b) == (bits \div Pow2(b)) % 2 = 1

\* The inner `for col in 0..ncols` loop of DRW on one sprite row.  d is the
\* draw state [lit, vf, clobber, oob]: the lit cells, VF, the row's clobber
\* flag and whether an index past the end of vram was touched.
RECURSIVE DrawCols(_, _, _, _, _, _, _)
DrawCols(c, d, bits, ncols, row_offset, x, col) ==
    IF col >= ncols THEN d
    ELSE IF (x + col) >= c.width /\ ~c.quirks.sprite_wrapping THEN d
    ELSE LET offset == IF (x + col) >= c.width
                       THEN row_offset + x + col - c.width
                       ELSE row_offset + x + col
             d1 == IF Bit(bits, ncols - 1 - col)
                   THEN IF offset >= c.vram.len
                        THEN [d EXCEPT !.oob = TRUE]
                        ELSE [d EXCEPT !.clobber = @ \/ (offset \in d.lit),
                                       !.lit = IF offset \in @
                                               THEN @ \ {offset}
                                               ELSE @ \cup {offset}]
                   ELSE d
         IN  IF d1.oob THEN d1
             ELSE DrawCols(c, d1, bits, ncols, row_offset, x, col + 1)

\* faulty variant of RowOffset: a row past the bottom edge is not brought
\* back by height
RowOffsetUnwrapped(c, y, row) == c.width * (y + row)

\* row_offset of sprite row `row` drawn from origin row y
RowOffset(c, y, row) ==
    IF (y + row) >= c.height
    THEN c.width * ((y + row) - c.height)
    ELSE c.width * (y + row)

\* The `for row in 0..16` loop of the 16x16 branch of DRW
RECURSIVE DrawRows16(_, _, _, _, _)
DrawRows16(c, d, x, y, row) ==
    IF row >= 16 \/ d.oob THEN d
    ELSE LET off == (y + row) >= c.height
             d0 == IF off THEN [d EXCEPT !.vf = U8(@ + 1)] ELSE d
         IN  IF off /\ ~c.quirks.sprite_wrapping THEN d0
             ELSE LET bits == MemRead(c.memory, U16(c.i + row * 2)) * 256
                              + MemRead(c.memory, U16(c.i + row * 2 + 1))
                      d1 == DrawCols(c, [d0 EXCEPT !.clobber = FALSE], bits, 16,
                                     RowOffset(c, y, row), x, 0)
                      d2 == IF d1.clobber THEN [d1 EXCEPT !.vf = U8(@ + 1)] ELSE d1
                  IN  DrawRows16(c, d2, x, y, row + 1)

\* The `for row in 0..n` loop of the 8-wide branch of DRW
RECURSIVE DrawRows8(_, _, _, _, _, _)
DrawRows8(c, d, x, y, n, row) ==
    IF row >= n \/ d.oob THEN d
    ELSE IF (y + row) >= c.height /\ ~c.quirks.sprite_wrapping THEN d
    ELSE LET bits == MemRead(c.memory, U16(c.i + row))
             d1 == DrawCols(c, [d EXCEPT !.clobber = FALSE], bits, 8,
                            RowOffset(c, y, row), x, 0)
             d2 == IF d1.clobber THEN [d1 EXCEPT !.vf = 1] ELSE d1
         IN  DrawRows8(c, d2, x, y, n, row + 1)

\* the DRW_Vx_Vy_n arm of CPU::execute: the final draw state
Draw(c, inst) ==
    LET x == IF c.vx[inst.x] >= c.width THEN c.vx[inst.x] % c.width ELSE c.vx[inst.x]
        y == IF c.vx[inst.y] >= c.height THEN c.vx[inst.y] % c.height ELSE c.vx[inst.y]
        d == [lit |-> c.vram.lit, vf |-> 0, clobber |-> FALSE, oob |-> FALSE]
    IN  IF inst.n = 0
        THEN DrawRows16(c, d, x, y, 0)
        ELSE DrawRows8(c, d, x, y, inst.n, 0)

\* the display arms of CPU::execute (CLS, LORES, HIRES, SCD_n, SCR, SCL, DRW)
ExecDisplay(c, inst) ==
    LET op == inst.op
        lit == c.vram.lit
        w == c.width
        h == c.height
    IN  CASE op = "CLS" -> [c EXCEPT !.vram.lit = {}]
          [] op = "LORES" ->
                [c EXCEPT !.hires = FALSE, !.width = 64, !.height = 32,
                          !.vram = VramResize(@, 64 * 32)]
          [] op = "HIRES" ->
                [c EXCEPT !.hires = TRUE, !.width = 128, !.height = 64,
                          !.vram = VramResize(@, 128 * 64)]
          [] op = "SCD_n" ->
                [c EXCEPT !.vram.lit =
                    {k + inst.n * w : k \in {j \in lit : j < (h - inst.n) * w}}
                    \cup {j \in lit : j >= h * w}]
          [] op = "SCR" ->
                [c EXCEPT !.vram.lit = {j + 4 : j \in {k \in lit : (k % w) < w - 4}}]
          [] op = "SCL" ->
                [c EXCEPT !.vram.lit = {j - 4 : j \in {k \in lit : (k % w) >= 4}}]
          [] op = "DRW_Vx_Vy_n" ->
                LET d == Draw(c, inst)
                IN  [c EXCEPT !.vx[15] = d.vf, !.vram.lit = d.lit]

\* values rand::thread_rng().gen_range(0..=kk) may return for this instruction
RndValues(inst) == IF inst.op = "RND_Vx_kk" THEN 0..inst.kk ELSE {0}

\* the value CPU::execute returns for every instruction
ExecuteCost == 8

\* faulty variant of Execute: ADD Vx,Vy stores the sum but leaves VF alone
\* (only the arms the arithmetic programs use are kept)
ExecuteAddNoCarry(c, inst, rnd) ==
    IF inst.op = "EXIT" THEN [c EXCEPT !.running = FALSE]
    ELSE IF inst.op = "ADD_Vx_Vy"
    THEN [c EXCEPT !.vx[inst.x] = U8(c.vx[inst.x] + c.vx[inst.y])]
    ELSE ExecALU(c, inst)

\* faulty variant of Execute: SUB and SUBN set VF only when the minuend is
\* strictly greater (only the arms the arithmetic programs use are kept)
ExecuteSubStrict(c, inst, rnd) ==
    IF inst.op = "EXIT" THEN [c EXCEPT !.running = FALSE]
    ELSE IF inst.op \in {"SUB_Vx_Vy", "SUBN_Vx_Vy"} /\ c.vx[inst.x] = c.vx[inst.y]
    THEN [ExecALU(c, inst) EXCEPT !.vx[15] = 0]
    ELSE ExecALU(c, inst)

\* faulty variant of Execute: SHR and SHL always shift Vx's own value,
\* whatever the shifting quirk says (only the arms the arithmetic programs
\* use are kept)
ExecuteShiftOwn(c, inst, rnd) ==
    IF inst.op = "EXIT" THEN [c EXCEPT !.running = FALSE]
    ELSE IF inst.op \in {"SHR_Vx_Vy", "SHL_Vx_Vy"}
    THEN [ExecALU([c EXCEPT !.quirks.shifting = TRUE], inst) EXCEPT !.quirks = c.quirks]
    ELSE ExecALU(c, inst)

\* faulty variant of Execute: AND, OR and XOR clear VF whatever the vf_reset
\* quirk says (only the arms the arithmetic programs use are kept)
ExecuteVfAlwaysReset(c, inst, rnd) ==
    IF inst.op = "EXIT" THEN [c EXCEPT !.running = FALSE]
    ELSE IF inst.op \in {"AND_Vx_Vy", "OR_Vx_Vy", "XOR_Vx_Vy"}
    THEN [ExecALU([c EXCEPT !.quirks.vf_reset = TRUE], inst) EXCEPT !.quirks = c.quirks]
    ELSE ExecALU(c, inst)

\* faulty variant of Execute: ADD I,Vx tests I for the flag after masking it
\* (only the arms the index programs use are kept)
ExecuteAddIFlagLate(c, inst, rnd) ==
    IF inst.op = "EXIT" THEN [c EXCEPT !.running = FALSE]
    ELSE IF inst.op = "ADD_I_Vx"
    THEN [c EXCEPT !.i = U16(@ + c.vx[inst.x]) % 4096, !.vx[15] = 0]
    ELSE ExecALU(c, inst)

\* faulty variant of Execute: CLS leaves the video buffer as it is (only
\* the arms the drawing programs use are kept)
ExecuteClsNoop(c, inst, rnd) ==
    IF inst.op = "EXIT" THEN [c EXCEPT !.running = FALSE]
    ELSE IF inst.op = "CLS" THEN c
    ELSE IF inst.op \in {"LORES", "HIRES", "SCD_n", "SCR", "SCL", "DRW_Vx_Vy_n"}
    THEN ExecDisplay(c, inst)
    ELSE ExecALU(c, inst)

\* faulty variant of Execute: SCR shifts the buffer as one long row, so the
\* last pixels of a row move into the next one (only the arms the drawing
\* programs use are kept)
ExecuteScrollWholeBuffer(c, inst, rnd) ==
    IF inst.op = "EXIT" THEN [c EXCEPT !.running = FALSE]
    ELSE IF inst.op = "SCR"
    THEN [c EXCEPT !.vram.lit = {k + 4 : k \in {j \in c.vram.lit : j + 4 < c.vram.len}}]
    ELSE IF inst.op \in {"CLS", "LORES", "HIRES", "SCD_n", "SCL", "DRW_Vx_Vy_n"}
    THEN ExecDisplay(c, inst)
    ELSE ExecALU(c, inst)

\* faulty variant of Execute: LOAD Vx restores all eight saved registers
\* whatever x is (only the arms the register-saving programs use are kept)
ExecuteLoadAll(c, inst, rnd) ==
    IF inst.op = "EXIT" THEN [c EXCEPT !.running = FALSE]
    ELSE IF inst.op = "LOAD_Vx"
    THEN [c EXCEPT !.vx = [r \in 0..15 |-> IF r <= 7 THEN c.save[r] ELSE @[r]]]
    ELSE ExecALU(c, inst)

\* faulty variant of Execute: DRW sets the pixels under the sprite's set
\* bits instead of toggling them (only the arms the drawing programs use
\* are kept)
ExecuteDrawSets(c, inst, rnd) ==
    IF inst.op = "EXIT" THEN [c EXCEPT !.running = FALSE]
    ELSE IF inst.op = "DRW_Vx_Vy_n"
    THEN [ExecDisplay(c, inst) EXCEPT !.vram.lit = @ \cup c.vram.lit]
    ELSE IF inst.op \in {"CLS", "LORES", "HIRES", "SCD_n", "SCR", "SCL"}
    THEN ExecDisplay(c, inst)
    ELSE ExecALU(c, inst)

\* faulty variant of Execute: ADD VF,Vy writes the sum after the carry, so
\* the sum is what VF holds (only the arms the arithmetic programs use are
\* kept)
ExecuteAddResultLast(c, inst, rnd) ==
    IF inst.op = "EXIT" THEN [c EXCEPT !.running = FALSE]
    ELSE IF inst.op = "ADD_Vx_Vy" /\ inst.x = 15
    THEN [c EXCEPT !.vx[15] = U8(c.vx[15] + c.vx[inst.y])]
    ELSE ExecALU(c, inst)

\* faulty variant of Execute: DRW never reports a collision (only the arms
\* the drawing programs use are kept)
ExecuteDrawNoCollision(c, inst, rnd) ==
    IF inst.op = "EXIT" THEN [c EXCEPT !.running = FALSE]
    ELSE IF inst.op = "DRW_Vx_Vy_n" THEN [ExecDisplay(c, inst) EXCEPT !.vx[15] = 0]
    ELSE IF inst.op \in {"CLS", "LORES", "HIRES", "SCD_n", "SCR", "SCL"}
    THEN ExecDisplay(c, inst)
    ELSE ExecALU(c, inst)

\* faulty variant of Execute: DRW wraps whatever the sprite_wrapping quirk
\* says (only the arms the drawing programs use are kept)
ExecuteDrawAlwaysWraps(c, inst, rnd) ==
    IF inst.op = "EXIT" THEN [c EXCEPT !.running = FALSE]
    ELSE IF inst.op = "DRW_Vx_Vy_n"
    THEN [ExecDisplay([c EXCEPT !.quirks.sprite_wrapping = TRUE], inst)
             EXCEPT !.quirks = c.quirks]
    ELSE IF inst.op \in {"CLS", "LORES", "HIRES", "SCD_n", "SCR", "SCL"}
    THEN ExecDisplay(c, inst)
    ELSE ExecALU(c, inst)

\* CPU::execute: the cpu after the instruction (rnd is the random draw)
Execute(c, inst, rnd) ==
    LET op == inst.op
    IN  CASE op = "SYS_addr" -> c
          [] op = "EXIT" -> [c EXCEPT !.running = FALSE]
          [] op = "RET" -> ExecRET(c)
          [] op = "JP_addr" -> ExecJP(c, inst.addr)
          [] op = "JP_Vx_addr" ->
                [c EXCEPT !.pc = U16(inst.addr
                                     + c.vx[IF c.quirks.jumping THEN inst.x ELSE 0])]
          [] op = "CALL_addr" -> ExecCALL(c, inst.addr)
          [] op = "RND_Vx_kk" -> [c EXCEPT !.vx[inst.x] = rnd]
          [] op \in {"SE_Vx_kk", "SNE_Vx_kk", "SE_Vx_Vy", "SNE_Vx_Vy",
                     "SKP_Vx", "SKNP_Vx", "LD_Vx_K"} -> ExecSkip(c, inst)
          [] op \in {"CLS", "LORES", "HIRES", "SCD_n", "SCR", "SCL",
                     "DRW_Vx_Vy_n"} -> ExecDisplay(c, inst)
          [] OTHER -> ExecALU(c, inst)

\* whether the instruction indexes vram out of bounds (a panic in execute)
ExecutePanics(c, inst) == inst.op = "DRW_Vx_Vy_n" /\ Draw(c, inst).oob

\* faulty variant of Fetch: the word is read little-endian
FetchLittleEndian(c) ==
    MemRead(c.memory, c.pc) + MemRead(c.memory, U16(c.pc + 1)) * 256

\* the opcode CPU::step fetches: big-endian word at [pc, pc + 1]
Fetch(c) == MemRead(c.memory, c.pc) * 256 + MemRead(c.memory, U16(c.pc + 1))

\* faulty variant of MaxCycles: the divisor of the front end's single-step mode
MaxCyclesPerStep(c) == c.clock_speed \div 60000

\* per-tick cycle budget: clock_speed / 6000
MaxCycles(c) == c.clock_speed \div 6000

\* faulty variant of Step: an opcode that matches no pattern is skipped
\* like a SYS instead of aborting the step
StepSkipsInvalid(c, rnd) ==
    LET inst == Parse(Fetch(c))
        c1 == [c EXCEPT !.pc = U16(@ + 2)]
    IN  IF inst = InvalidOpcode
        THEN [cpu |-> c1, cycles |-> ExecuteCost, panic |-> FALSE]
        ELSE IF ExecutePanics(c1, inst)
        THEN [cpu |-> c1, cycles |-> 0, panic |-> TRUE]
        ELSE [cpu |-> Execute(c1, inst, rnd),
              cycles |-> IF inst.op = "DRW_Vx_Vy_n" /\ c.quirks.display_wait
                         THEN MaxCycles(c)
                         ELSE ExecuteCost,
              panic |-> FALSE]

\* faulty variant of Step: a DRW costs what every other instruction costs,
\* with or without display_wait
StepDrawCostsLikeOthers(c, rnd) ==
    LET inst == Parse(Fetch(c))
    IN  IF inst = InvalidOpcode
        THEN [cpu |-> c, cycles |-> 0, panic |-> TRUE]
        ELSE LET c1 == [c EXCEPT !.pc = U16(@ + 2)]
             IN  IF ExecutePanics(c1, inst)
                 THEN [cpu |-> c1, cycles |-> 0, panic |-> TRUE]
                 ELSE [cpu |-> Execute(c1, inst, rnd), cycles |-> ExecuteCost,
                       panic |-> FALSE]

\* CPU::step: [cpu, cycles, panic].  A panic (invalid opcode, or an
\* out-of-bounds vram index) unwinds out of step before anything is returned.
Step(c, rnd) ==
    LET inst == Parse(Fetch(c))
    IN  IF inst = InvalidOpcode
        THEN [cpu |-> c, cycles |-> 0, panic |-> TRUE]
        ELSE LET c1 == [c EXCEPT !.pc = U16(@ + 2)]
             IN  IF ExecutePanics(c1, inst)
                 THEN [cpu |-> c1, cycles |-> 0, panic |-> TRUE]
                 ELSE [cpu |-> Execute(c1, inst, rnd),
                       cycles |-> IF inst.op = "DRW_Vx_Vy_n" /\ c.quirks.display_wait
                                  THEN MaxCycles(c)
                                  ELSE ExecuteCost,
                       panic |-> FALSE]

(***************************************************************************)
(* Inputs: the programs loaded, the configuration, the front end's events  *)
(***************************************************************************)
\* big-endian bytes of a sequence of 16-bit opcodes
Bytes(ops) ==
    [k \in 1..(2 * Len(ops)) |->
        IF k % 2 = 1 THEN ops[(k + 1) \div 2] \div 256 ELSE ops[k \div 2] % 256]

\* CPU::new's clock_speed
DefaultClockSpeed == 1000000

\* clock_speed values configured: the default, and a slow clock whose
\* budget is 96000 / 6000 = 16 cycles per tick
ClockSpeeds == {DefaultClockSpeed, 96000}

QuirkSets == {QuirksChip8, QuirksSuperchip, QuirksXochip}

\* 0x200: ADD V0,0x40 / LD DT,V0 / LD ST,V0 / JP 0x200: an endless loop of
\* 8-cycle instructions that keeps reloading the timers
ProgTimerLoop == << 28736, 61461, 61464, 4608 >>

\* 0x200: CALL 0x206 / CALL 0x208 / JP 0x204 (self) / 0x206: CALL 0x208 /
\* 0x208: RET.  Nested calls, shared RET, ends in a self-jump.
ProgCalls == << 8710, 8712, 4612, 8712, 238 >>

\* 0x200: ADD V0,1 / SE V0,MaxStack / CALL 0x200 / RET.  Recursion to depth
\* MaxStack - 1, then unwinds and finally executes RET on an empty stack.
ProgRecurse == << 28673, 12288 + MaxStack, 8704, 238 >>

\* 0x200: JP 0x202 (the next instruction) / SE V0,0 (taken) / SYS 0 /
\* SNE V0,0 (not taken) / EXIT
ProgJumpSkip == << 4610, 12288, 0, 16384, 253 >>

\* 0x200: LD V1,K / DRW V0,V0,5 / JP 0x200: waits for a key, draws the
\* font glyph at I = 0, repeats
ProgKeyDraw == << 61706, 53253, 4608 >>

Programs == {ProgTimerLoop, ProgCalls, ProgRecurse, ProgJumpSkip, ProgKeyDraw}

\* key codes the front end passes to keydown / keyup: keys 0..MaxKey-1 and
\* the out-of-range code 16 (folded onto key 0 by `key & 0xf`)
KeyCodes == (0..(MaxKey - 1)) \cup {16}

\* addresses the debugger sets breakpoints at
BpAddrs == {512 + 2 * k : k \in 0..(MaxBp - 1)}

(***************************************************************************)
(* chip8.rs: the machine                                                   *)
(***************************************************************************)
VARIABLES
    cpu,          \* Chip8.cpu
    halted,       \* Chip8.halted
    breakpoints,  \* Chip8.breakpoints
    at,           \* where tick() is: "idle" (not in tick), "while", "timers",
                  \* or "panicked" (the thread unwound from a panic)
    cycles,       \* tick()'s local `cycles`
    steps,        \* history: instructions executed so far by the current tick
    skipped,      \* history: 0 after a tick() that ran; else 1 or 2, alternating
                  \* with every tick() call that returned early
    stop,         \* history: the pc of the last breakpoint stop (-1: none pending)
                  \* and whether the first instruction after it has executed
    callsites     \* history: addresses of the CALLs still awaiting their RET

vars == << cpu, halted, breakpoints, at, cycles, steps, skipped, stop, callsites >>

\* history: no breakpoint stop is pending
NoStop == [pc |-> -1, continued |-> FALSE]

\* Chip8::new followed by the configuration and load_program
Init ==
    /\ \E q \in QuirkSets, clk \in ClockSpeeds, prog \in Programs :
          cpu = [CpuNew(q, clk) EXCEPT !.memory = MemLoadProgram(@, Bytes(prog))]
    /\ halted = FALSE
    /\ breakpoints = {}
    /\ at = "idle"
    /\ cycles = 0
    /\ steps = 0
    /\ skipped = 0
    /\ stop = NoStop
    /\ callsites = << >>

\* faulty variant of TickReturnsEarly: the halted flag is not consulted
TickReturnsEarlyIgnoresHalt(c, h) == ~c.running

\* tick(): `if !self.cpu.running || self.halted { return; }`
TickReturnsEarly(c, h) == ~c.running \/ h

\* faulty variant of LoopCond: running is not consulted
LoopCondBudgetOnly(c, cyc) == cyc < MaxCycles(c)

\* tick(): `while self.cpu.running && cycles < max_cycles`
LoopCond(c, cyc) == c.running /\ cyc < MaxCycles(c)

\* faulty variant of BreakpointHit: the pc before the step is tested
BreakpointHitPreStep(bps, pc) == (pc - 2) \in bps

\* tick(): `if self.breakpoints.contains(&self.cpu.pc)`
BreakpointHit(bps, pc) == pc \in bps

\* tick(): `if cycles >= max_cycles { break; }`
BudgetReached(c, cyc) == cyc >= MaxCycles(c)

\* faulty variant of TickEnter: tick() tests the pc against the breakpoints
\* before its first step and halts again without executing anything
TickEnterTestsBreakpoint ==
    /\ at = "idle"
    /\ IF TickReturnsEarly(cpu, halted)
       THEN /\ skipped' = IF skipped = 1 THEN 2 ELSE 1
            /\ UNCHANGED << cpu, halted, breakpoints, at, cycles, steps, stop, callsites >>
       ELSE IF BreakpointHit(breakpoints, cpu.pc)
       THEN /\ halted' = TRUE
            /\ skipped' = 0
            /\ UNCHANGED << cpu, breakpoints, at, cycles, steps, stop, callsites >>
       ELSE /\ skipped' = 0
            /\ at' = "while"
            /\ cycles' = 0
            /\ steps' = 0
            /\ UNCHANGED << cpu, halted, breakpoints, stop, callsites >>

\* tick() is called: it returns at once, or enters its loop with cycles = 0
TickEnter ==
    /\ at = "idle"
    /\ IF TickReturnsEarly(cpu, halted)
       THEN /\ skipped' = IF skipped = 1 THEN 2 ELSE 1
            /\ UNCHANGED << cpu, halted, breakpoints, at, cycles, steps, stop, callsites >>
       ELSE /\ skipped' = 0
            /\ at' = "while"
            /\ cycles' = 0
            /\ steps' = 0
            /\ UNCHANGED << cpu, halted, breakpoints, stop, callsites >>

\* history: the CALL sites after the instruction at c.pc has executed
CallsitesAfter(c, sites) ==
    LET inst == Parse(Fetch(c))
    IN  IF inst.op = "CALL_addr" THEN Append(sites, c.pc)
        ELSE IF inst.op = "RET" /\ Len(sites) > 0 THEN SubSeq(sites, 1, Len(sites) - 1)
        ELSE sites

\* one evaluation of the while condition and, if it holds, one loop body:
\* step, the breakpoint test, the budget test
TickLoop ==
    /\ at = "while"
    /\ IF LoopCond(cpu, cycles)
       THEN \E rnd \in RndValues(Parse(Fetch(cpu))) :
              LET r == Step(cpu, rnd)
              IN  IF r.panic
                  THEN /\ at' = "panicked"
                       /\ cpu' = r.cpu
                       /\ UNCHANGED << halted, breakpoints, cycles, steps, skipped,
                                       stop, callsites >>
                  ELSE /\ cpu' = r.cpu
                       /\ cycles' = cycles + r.cycles
                       /\ steps' = steps + 1
                       /\ callsites' = CallsitesAfter(cpu, callsites)
                       /\ IF BreakpointHit(breakpoints, r.cpu.pc)
                          THEN /\ halted' = TRUE
                               /\ stop' = [pc |-> r.cpu.pc, continued |-> FALSE]
                               /\ at' = "timers"
                          ELSE /\ stop' = IF stop.pc # -1 /\ ~stop.continued
                                          THEN [stop EXCEPT !.continued = TRUE]
                                          ELSE NoStop
                               /\ UNCHANGED halted
                               /\ at' = IF BudgetReached(r.cpu, cycles + r.cycles)
                                        THEN "timers" ELSE "while"
                       /\ UNCHANGED << breakpoints, skipped >>
       ELSE /\ at' = "timers"
            /\ UNCHANGED << cpu, halted, breakpoints, cycles, steps, skipped,
                            stop, callsites >>

\* faulty variant of TickEnd: a tick stopped by a breakpoint returns
\* without calling tick_timers
TickEndSkipsWhenHalted ==
    /\ at = "timers"
    /\ cpu' = IF halted THEN cpu ELSE TickTimers(cpu)
    /\ at' = "idle"
    /\ cycles' = 0
    /\ steps' = 0
    /\ UNCHANGED << halted, breakpoints, skipped, stop, callsites >>

\* the end of tick(): self.cpu.tick_timers(), then return
TickEnd ==
    /\ at = "timers"
    /\ cpu' = TickTimers(cpu)
    /\ at' = "idle"
    /\ cycles' = 0
    /\ steps' = 0
    /\ UNCHANGED << halted, breakpoints, skipped, stop, callsites >>

\* Chip8::keydown
Keydown ==
    /\ at = "idle"
    /\ \E key \in KeyCodes : cpu' = CpuKeydown(cpu, key)
    /\ UNCHANGED << halted, breakpoints, at, cycles, steps, skipped, stop, callsites >>

\* Chip8::keyup
Keyup ==
    /\ at = "idle"
    /\ \E key \in KeyCodes : cpu' = CpuKeyup(cpu, key)
    /\ UNCHANGED << halted, breakpoints, at, cycles, steps, skipped, stop, callsites >>

\* faulty variant of Resume: resuming also restarts the program at 0x200
ResumeRestarts ==
    /\ at = "idle"
    /\ halted' = FALSE
    /\ cpu' = [cpu EXCEPT !.pc = 512]
    /\ UNCHANGED << breakpoints, at, cycles, steps, skipped, stop, callsites >>

\* Chip8::resume
Resume ==
    /\ at = "idle"
    /\ halted' = FALSE
    /\ UNCHANGED << cpu, breakpoints, at, cycles, steps, skipped, stop, callsites >>

\* Chip8::set_breakpoint
SetBreakpoint ==
    /\ at = "idle"
    /\ \E addr \in BpAddrs : breakpoints' = breakpoints \cup {addr}
    /\ UNCHANGED << cpu, halted, at, cycles, steps, skipped, stop, callsites >>

\* Chip8::remove_breakpoint
RemoveBreakpoint ==
    /\ at = "idle"
    /\ \E addr \in BpAddrs : breakpoints' = breakpoints \ {addr}
    /\ UNCHANGED << cpu, halted, at, cycles, steps, skipped, stop, callsites >>

Next ==
    \/ TickEnter
    \/ TickLoop
    \/ TickEnd
    \/ Keydown
    \/ Keyup
    \/ Resume
    \/ SetBreakpoint
    \/ RemoveBreakpoint

Spec == Init /\ [][Next]_vars

(***************************************************************************)
(* Runs of one short program, for the properties of single instructions    *)
(***************************************************************************)
\* a clock_speed whose per-tick budget is exactly one instruction
StepClock == 6000 * ExecuteCost

\* register operands tried: the first two registers and the flag register VF
OperandRegs == {0, 1, 15}

\* byte values tried: both ends, with and without the top bit, odd and even
OperandBytes == {0, 1, 128, 255}

\* register operands of the one-instruction programs: the two ends
DecodeRegs == {0, 15}

\* opcodes loaded as one-instruction programs: every 0x0nnn, and for every
\* other leading nibble every low byte with the register operand x taken
\* from DecodeRegs (RND, 0xCxkk, only with a mask kk from OperandBytes)
DecodeOpcodes ==
    (0..4095)
    \cup {n1 * 4096 + x * 256 + kk :
              n1 \in (1..15) \ {12}, x \in DecodeRegs, kk \in 0..255}
    \cup {12 * 4096 + x * 256 + kk : x \in DecodeRegs, kk \in OperandBytes}

\* LD VF,0x55 / LD Vx,a / LD Vy,b / <8xyN> / EXIT for the eight arithmetic
\* and logic instructions 8xy1..8xy7 and 8xyE
AluPrograms ==
    {<< 24576 + 15 * 256 + 85,
        24576 + x * 256 + a,
        24576 + y * 256 + b,
        32768 + x * 256 + y * 16 + n,
        253 >> :
        x \in OperandRegs, y \in OperandRegs,
        a \in OperandBytes, b \in OperandBytes,
        n \in (1..7) \cup {14}}

\* the instructions that do arithmetic on I: ADD I,Vx / LD [I],Vx / LD Vx,[I]
IndexOps(x) == {61440 + x * 256 + 30, 61440 + x * 256 + 85, 61440 + x * 256 + 101}

\* LD Vx,a / LD I,addr / two instructions from IndexOps(x) / EXIT, with I
\* set at the bottom of memory, just below its top, and at its top
IndexPrograms ==
    UNION {{<< 24576 + x * 256 + a, 40960 + addr, op1, op2, 253 >> :
               a \in OperandBytes, addr \in {0, 4080, 4095},
               op1 \in IndexOps(x), op2 \in IndexOps(x)} : x \in OperandRegs}

\* Chip8::new, the configuration and load_program for one program
Loaded(q, clk, prog) ==
    /\ cpu = [CpuNew(q, clk) EXCEPT !.memory = MemLoadProgram(@, Bytes(prog))]
    /\ halted = FALSE
    /\ breakpoints = {}
    /\ at = "idle"
    /\ cycles = 0
    /\ steps = 0
    /\ skipped = 0
    /\ stop = NoStop
    /\ callsites = << >>

InitDecode == \E op \in DecodeOpcodes : Loaded(QuirksDefault, StepClock, << op >>)

InitAlu == \E q \in QuirkSets, prog \in AluPrograms : Loaded(q, DefaultClockSpeed, prog)

InitIndex == \E q \in QuirkSets, prog \in IndexPrograms : Loaded(q, DefaultClockSpeed, prog)

\* the front end calls tick() while the program is still at its entry point
\* with nothing on the call stack
TickAtEntry == cpu.pc = 512 /\ cpu.stack = << >> /\ TickEnter

NextRun ==
    \/ TickAtEntry
    \/ TickLoop
    \/ TickEnd

SpecDecode == InitDecode /\ [][NextRun]_vars

SpecAlu == InitAlu /\ [][NextRun]_vars

SpecIndex == InitIndex /\ [][NextRun]_vars

(***************************************************************************)
(* Runs of a program that waits for a key                                  *)
(***************************************************************************)
\* 0x200: LD V0,3 / LD DT,V0 / LD V1,K / EXIT: starts the delay timer, then
\* waits for a key
ProgKeyWait == << 24579, 61461, 61706, 253 >>

\* the keys of the keypad the user presses and releases
WaitKeys == {3, 7}

InitKeys == \E clk \in ClockSpeeds : Loaded(QuirksDefault, clk, ProgKeyWait)

\* Chip8::keydown for a key of WaitKeys
KeydownWait ==
    /\ at = "idle"
    /\ \E key \in WaitKeys : cpu' = CpuKeydown(cpu, key)
    /\ UNCHANGED << halted, breakpoints, at, cycles, steps, skipped, stop, callsites >>

\* Chip8::keyup for a key of WaitKeys
KeyupWait ==
    /\ at = "idle"
    /\ \E key \in WaitKeys : cpu' = CpuKeyup(cpu, key)
    /\ UNCHANGED << halted, breakpoints, at, cycles, steps, skipped, stop, callsites >>

NextKeys ==
    \/ TickEnter
    \/ TickLoop
    \/ TickEnd
    \/ KeydownWait
    \/ KeyupWait

SpecKeys == InitKeys /\ [][NextKeys]_vars

(***************************************************************************)
(* Runs of short programs that draw                                        *)
(***************************************************************************)
\* values loaded into V0, V1 to give the sprite's origin: the top left
\* corner, across the right edge and across the bottom edge of the
\* low-resolution screen, and across both edges of the high-resolution
\* screen (past the low-resolution one)
Origins == {<< 0, 0 >>, << 62, 0 >>, << 0, 30 >>, << 126, 62 >>}

\* sprite heights tried: the 16x16 sprite (0), a font glyph, the tallest
\* 8-wide sprite
SpriteHeights == {0, 5, 15}

\* the presets run: sprites clipped with display wait, and sprites wrapped
DisplayQuirks == {QuirksChip8, QuirksXochip}

\* what follows the first DRW V0,V1,n: CLS twice / LORES / HIRES /
\* HIRES, LORES / SCD 1 / SCD 15 / SCR / SCL / DRW V0,V1,5 / the same
\* twice / SCR, DRW V0,V1,5 / DRW V0,V1,0 / DRW V1,V0,0
DisplayTails ==
    {<< 224, 224 >>, << 254 >>, << 255 >>, << 255, 254 >>,
     << 193 >>, << 207 >>, << 251 >>, << 252 >>,
     << 53269 >>, << 53269, 53269 >>, << 193, 53269 >>, << 45054, 53269 >>,
     << 53264 >>, << 53504 >>}

\* LORES or HIRES / LD V0,a / LD V1,b / DRW V0,V1,n / a tail / EXIT.  I is
\* 0, so the sprite rows are the bytes of the built-in font.
DisplayPrograms ==
    {<< mode, 24576 + o[1], 24576 + 256 + o[2], 53264 + n >> \o tail \o << 253 >> :
        mode \in {254, 255}, o \in Origins, n \in SpriteHeights,
        tail \in DisplayTails}

InitDisplay ==
    \E q \in DisplayQuirks, prog \in DisplayPrograms : Loaded(q, DefaultClockSpeed, prog)

NextTicks ==
    \/ TickEnter
    \/ TickLoop
    \/ TickEnd

SpecDisplay == InitDisplay /\ [][NextTicks]_vars

(***************************************************************************)
(* Runs of short programs that save and restore registers                  *)
(***************************************************************************)
\* register operands of SAVE and LOAD: below, at and above the eight slots
SaveRegs == {0, 1, 7, 8, 15}

\* LD V0,a / LD V7,0x77 / LD V8,0x88 / SAVE Vx / LD V0,a+1 / LD V7,0x17 /
\* LD V8,0x18 / LOAD Vy / EXIT
SavePrograms ==
    {<< 24576 + a, 24576 + 7 * 256 + 119, 24576 + 8 * 256 + 136,
        61557 + x * 256,
        24576 + ((a + 1) % 256), 24576 + 7 * 256 + 23, 24576 + 8 * 256 + 24,
        61573 + y * 256,
        253 >> :
        a \in OperandBytes, x \in SaveRegs, y \in SaveRegs}

InitSave == \E q \in QuirkSets, prog \in SavePrograms : Loaded(q, DefaultClockSpeed, prog)

SpecSave == InitSave /\ [][NextRun]_vars

(***************************************************************************)
(* Runs of short programs over memory written at 16-bit addresses          *)
(***************************************************************************)
\* addresses the front end writes at before the run: the first two cells
\* and the last one, each named by an address beyond 0xFFF
PokeAddrs == {4096, 4097, 65535}

\* bytes written there: zero and the low byte of EXIT (0x00FD)
PokeBytes == {0, 253}

\* RET, executed with nothing on the stack;
\* JP 0xFFE, which runs into the last two cells and then past 0xFFF;
\* LD V0,0xAA / LD V1,0x55 / LD I,0xFFF / LD [I],V1 / LD V0,0 / LD V1,0 /
\* (LD I,0xFFF or SYS 0) / LD V1,[I] / EXIT, which stores and loads across
\* the end of memory, the load with I reloaded or left where the memory
\* quirk moved it
MemPrograms ==
    {<< 238 >>, << 4096 + 4094 >>}
    \cup {<< 24576 + 170, 24576 + 256 + 85, 40960 + 4095, 61440 + 256 + 85,
             24576, 24576 + 256, reload, 61440 + 256 + 101, 253 >> :
             reload \in {40960 + 4095, 0}}

InitMem == \E q \in QuirkSets, prog \in MemPrograms : Loaded(q, DefaultClockSpeed, prog)

\* the front end writes a byte through cpu.memory before the program runs
PokeMemory ==
    /\ at = "idle"
    /\ cpu.pc = 512
    /\ cpu.running
    /\ \E a \in PokeAddrs, b \in PokeBytes :
          cpu' = [cpu EXCEPT !.memory = MemWrite(@, a, b)]
    /\ UNCHANGED << halted, breakpoints, at, cycles, steps, skipped, stop, callsites >>

NextMem ==
    \/ PokeMemory
    \/ TickAtEntry
    \/ TickLoop
    \/ TickEnd

SpecMem == InitMem /\ [][NextMem]_vars

(***************************************************************************)
(* Runs under the debugger of programs that stay at an address             *)
(***************************************************************************)
\* 0x200: ADD V0,0x80 / JP 0x200: an endless loop through the entry point
ProgLoop == << 28672 + 128, 4608 >>

\* 0x200: JP 0x200: a jump to itself at the entry point
ProgSelfJump == << 4608 >>

\* 0x200: LD V1,K / JP 0x202: waits for a key, then a jump to itself
ProgKeyThenSelfJump == << 61706, 4610 >>

BpPrograms == {ProgLoop, ProgSelfJump, ProgKeyThenSelfJump}

InitBp == \E clk \in ClockSpeeds, prog \in BpPrograms : Loaded(QuirksDefault, clk, prog)

SpecBp == InitBp /\ [][Next]_vars

(***************************************************************************)
(* Runs of one draw of a solid sprite from the corners of the byte range   *)
(***************************************************************************)
\* values of Vx and Vy: the first column or row, the last one of the low
\* resolution screen, and the largest byte
DrawCoords == {0, 63, 255}

\* sixteen rows of sixteen set bits
SolidSprite == [k \in 1..16 |-> 65535]

\* LORES or HIRES / LD V0,a / LD V1,b / LD I,0x20C / DRW V0,V1,n / EXIT,
\* followed at 0x20C by the solid sprite
DrawPrograms ==
    {<< mode, 24576 + a, 24576 + 256 + b, 40960 + 524, 53264 + n, 253 >> \o SolidSprite :
        mode \in {254, 255}, a \in DrawCoords, b \in DrawCoords, n \in 0..15}

InitDraw == \E q \in DisplayQuirks, prog \in DrawPrograms : Loaded(q, DefaultClockSpeed, prog)

SpecDraw == InitDraw /\ [][NextTicks]_vars

(***************************************************************************)
(* Properties                                                              *)
(***************************************************************************)
\* this step executed one instruction (a step() call that returned)
InstrExecuted == steps' = steps + 1

\* this step is a call of tick(): tick entered its loop or returned early
TickCalled == at = "idle" /\ (at' # "idle" \/ skipped' # skipped)

\* the instruction at pc, decoded from the two bytes in memory
InstAt(c) == Parse(MemRead(c.memory, c.pc) * 256 + MemRead(c.memory, c.pc + 1))

\* x - 1 floored at 0
Dec0(x) == IF x > 0 THEN x - 1 ELSE 0

\* C1: a tick() called while the CPU is not running or the machine is halted
\* changes nothing: the whole cpu (pc, registers, I, stack, memory, video
\* buffer, dt, st, keys), halted and the breakpoint set are unchanged, and no
\* instruction is executed.
C1_TickNoop ==
    [][(TickCalled /\ (~cpu.running \/ halted))
         => /\ cpu' = cpu
            /\ halted' = halted
            /\ breakpoints' = breakpoints
            /\ at' = "idle"
            /\ ~InstrExecuted]_vars

\* C1 witness: a halted machine with a running delay timer has been ticked
C1_Witness ==
    /\ skipped > 0
    /\ halted
    /\ cpu.running
    /\ cpu.dt > 0
    /\ at = "idle"

\* C2: after every step inside tick() the post-step pc is tested against the
\* breakpoint set; on a hit halted becomes true and the tick executes no
\* further instruction even under budget; halted becomes true in no other way.
C2_BreakpointHalts ==
    [][/\ InstrExecuted =>
            /\ ~halted
            /\ (cpu'.pc \in breakpoints) => (halted' /\ at' = "timers")
       /\ (halted' /\ ~halted) => (InstrExecuted /\ cpu'.pc \in breakpoints)]_vars

\* C2 witness: a tick stopped by a breakpoint while still under its budget
C2_Witness ==
    /\ at = "timers"
    /\ halted
    /\ cpu.running
    /\ cpu.pc \in breakpoints
    /\ steps >= 1
    /\ cycles < cpu.clock_speed \div 6000

C4_TimersOncePerTick ==
    /\ [][(at = "timers" /\ at' = "idle" /\ ~halted)
            => cpu' = [cpu EXCEPT !.dt = Dec0(cpu.dt), !.st = Dec0(cpu.st)]]_vars
    /\ [][(at # "timers")
            => /\ (cpu'.dt # cpu.dt) => (InstrExecuted /\ InstAt(cpu).op = "LD_DT_Vx")
               /\ (cpu'.st # cpu.st) => (InstrExecuted /\ InstAt(cpu).op = "LD_ST_Vx")]_vars

\* C4 witness: after a tick that was not stopped by a breakpoint, timers
\* loaded with 64 read 63
C4_Witness ==
    /\ at = "idle"
    /\ ~halted
    /\ cpu.running
    /\ cpu.dt = 63
    /\ cpu.st = 63

\* C5: resume() clears halted and changes nothing else (cpu and breakpoint
\* set unchanged), and the first instruction executed after a breakpoint stop
\* is the one at the pc where the breakpoint stopped execution.
C5_ResumeContinues ==
    /\ [][(halted /\ ~halted')
            => /\ cpu' = cpu
               /\ breakpoints' = breakpoints
               /\ at' = at
               /\ ~InstrExecuted]_vars
    /\ [][(InstrExecuted /\ stop.pc # -1 /\ ~stop.continued)
            => (~halted /\ steps = 0 /\ cpu.pc = stop.pc)]_vars

\* C5 witness: the tick after a resume has executed its first instruction,
\* the one at the stop address, and moved past it
C5_Witness ==
    /\ stop.continued
    /\ steps = 1
    /\ ~halted
    /\ cpu.pc # stop.pc

\* C6: once running is false it stays false under every machine operation
\* and no instruction is executed any more (pc never moves again), whereas a
\* tick() of a running machine that is not halted (e.g. after resume) does
\* enter its stepping loop.
C6_TerminationPermanent ==
    /\ [][~cpu.running
            => (~cpu'.running /\ ~InstrExecuted /\ cpu'.pc = cpu.pc)]_vars
    /\ [][(TickCalled /\ cpu.running /\ ~halted)
            => (at' = "while" /\ cycles' = 0 /\ cpu' = cpu)]_vars

\* C6 witness: ProgJumpSkip has terminated in its EXIT at 0x208 and has been
\* ticked twice since
C6_Witness ==
    /\ ~cpu.running
    /\ cpu.pc = 522
    /\ MemRead(cpu.memory, 521) = 253
    /\ skipped = 2
    /\ at = "idle"

\* the opcodes that neither branch nor skip
StraightOps ==
    {"SYS_addr", "CLS", "LD_Vx_kk", "ADD_Vx_kk", "LD_Vx_Vy", "OR_Vx_Vy",
     "AND_Vx_Vy", "XOR_Vx_Vy", "ADD_Vx_Vy", "SUB_Vx_Vy", "SHR_Vx_Vy",
     "SUBN_Vx_Vy", "SHL_Vx_Vy", "LD_I_addr", "RND_Vx_kk", "LD_Vx_DT",
     "LD_DT_Vx", "LD_ST_Vx", "ADD_I_Vx", "LD_F_Vx", "LD_B_Vx", "LD_iI_Vx",
     "LD_Vx_iI", "DRW_Vx_Vy_n", "SCD_n", "SCR", "SCL", "EXIT", "LORES",
     "HIRES", "LD_HF_Vx", "SAVE_Vx", "LOAD_Vx"}

\* whether the skip instruction inst, executed in cpu state c, is taken
SkipTaken(c, inst) ==
    CASE inst.op = "SE_Vx_kk" -> c.vx[inst.x] = inst.kk
      [] inst.op = "SNE_Vx_kk" -> c.vx[inst.x] # inst.kk
      [] inst.op = "SE_Vx_Vy" -> c.vx[inst.x] = c.vx[inst.y]
      [] inst.op = "SNE_Vx_Vy" -> c.vx[inst.x] # c.vx[inst.y]
      [] inst.op = "SKP_Vx" -> c.keys[c.vx[inst.x] % 16]
      [] inst.op = "SKNP_Vx" -> ~c.keys[c.vx[inst.x] % 16]
      [] OTHER -> FALSE

SkipOps == {"SE_Vx_kk", "SNE_Vx_kk", "SE_Vx_Vy", "SNE_Vx_Vy", "SKP_Vx", "SKNP_Vx"}

\* C7: step() reads the opcode big-endian from memory[pc], memory[pc+1] (the
\* first byte carries the opcode class and x, the second kk / the low address
\* bits), advances pc by 2 before executing (a non-branching instruction ends
\* at pc + 2, a taken skip at pc + 4, a jump at its absolute target) and costs
\* 8 cycles, except a DRW under display_wait, which costs clock_speed / 6000.
C7_Step ==
    [][InstrExecuted =>
        LET b0 == MemRead(cpu.memory, cpu.pc)
            b1 == MemRead(cpu.memory, cpu.pc + 1)
            inst == InstAt(cpu)
        IN  /\ cycles' - cycles =
                  IF inst.op = "DRW_Vx_Vy_n" /\ cpu.quirks.display_wait
                  THEN cpu.clock_speed \div 6000
                  ELSE 8
            /\ (b0 \div 16 = 7) => cpu'.vx[b0 % 16] = (cpu.vx[b0 % 16] + b1) % 256
            /\ (b0 \div 16 = 1) => cpu'.pc = (b0 % 16) * 256 + b1
            /\ (b0 \div 16 = 2) => cpu'.pc = (b0 % 16) * 256 + b1
            /\ (inst.op \in StraightOps) => cpu'.pc = cpu.pc + 2
            /\ (inst.op \in SkipOps) =>
                  cpu'.pc = cpu.pc + (IF SkipTaken(cpu, inst) THEN 4 ELSE 2)]_vars

\* C7 witness: ProgJumpSkip after its JP and the taken SE V0,0 at 0x202:
\* pc is 0x206
C7_Witness ==
    /\ steps = 2
    /\ cycles = 16
    /\ cpu.pc = 518
    /\ MemRead(cpu.memory, 514) = 48
    /\ cpu.vx[0] = 0

\* C8: a JP addr stepped at address addr (a jump to itself) leaves running
\* false and pc = addr; from then on the tick executes no further
\* instruction and every later tick() changes nothing.
C8_SelfJumpTerminates ==
    /\ [][(InstrExecuted /\ InstAt(cpu).op = "JP_addr" /\ InstAt(cpu).addr = cpu.pc)
            => (~cpu'.running /\ cpu'.pc = cpu.pc)]_vars
    /\ [][(~cpu.running /\ at = "while") => (at' = "timers" /\ cpu' = cpu)]_vars
    /\ [][(~cpu.running /\ at = "idle" /\ TickCalled)
            => (at' = "idle" /\ cpu' = cpu /\ halted' = halted)]_vars

\* C8 witness: ProgCalls stopped in its self-jump at 0x204 and was ticked again
C8_Witness ==
    /\ ~cpu.running
    /\ cpu.pc = 516
    /\ InstAt(cpu) = InstA("JP_addr", 516)
    /\ skipped > 0

\* C9 as stated: a JP addr whose target equals the already-incremented pc
\* (the address of the JP plus 2) sets running = false.
C9_PostIncrementTarget ==
    [][(InstrExecuted /\ InstAt(cpu).op = "JP_addr" /\ InstAt(cpu).addr = cpu.pc + 2)
         => ~cpu'.running]_vars

\* C9 amended: a JP addr sets running = false exactly when its target is the
\* address of the JP itself (target + 2 equals the already-incremented pc); a
\* JP to the already-incremented pc leaves running unchanged.
C9_SelfTargetOnly ==
    [][(InstrExecuted /\ InstAt(cpu).op = "JP_addr")
         => /\ (InstAt(cpu).addr = cpu.pc) => ~cpu'.running
            /\ (InstAt(cpu).addr # cpu.pc) => cpu'.running = cpu.running]_vars

\* C9 witness: ProgJumpSkip has executed JP 0x202 at 0x200 and still runs
C9_Witness ==
    /\ steps = 1
    /\ cpu.pc = 514
    /\ cpu.running
    /\ MemRead(cpu.memory, 512) = 18
    /\ MemRead(cpu.memory, 513) = 2

\* C10: CALL pushes the already-incremented pc and jumps to addr; RET pops
\* the most recent return address into pc; JP leaves the stack alone.  So the
\* stack always holds, in order, the addresses following the CALLs not yet
\* returned from, and a RET returns behind the innermost of them.
C10_CallRetLifo ==
    /\ [](/\ Len(cpu.stack) = Len(callsites)
          /\ \A k \in 1..Len(callsites) : cpu.stack[k] = callsites[k] + 2)
    /\ [][InstrExecuted =>
            LET inst == InstAt(cpu)
            IN  /\ (inst.op = "CALL_addr") =>
                      /\ cpu'.pc = inst.addr
                      /\ cpu'.stack = Append(cpu.stack, cpu.pc + 2)
                /\ (inst.op = "RET" /\ Len(cpu.stack) > 0) =>
                      /\ cpu'.pc = callsites[Len(callsites)] + 2
                      /\ cpu'.stack = SubSeq(cpu.stack, 1, Len(cpu.stack) - 1)
                /\ (inst.op \notin {"CALL_addr", "RET"}) => cpu'.stack = cpu.stack]_vars

\* C10 witness: ProgCalls after CALL 0x206, CALL 0x208 and the inner RET:
\* back behind the inner CALL with the outer return address still stacked
C10_Witness ==
    /\ steps = 3
    /\ cpu.pc = 520
    /\ cpu.stack = << 514 >>
    /\ callsites = << 512 >>

\* C11: a RET executed with an empty call stack is not a fault: the step
\* returns normally with the usual cost, pc becomes 0, the stack is still
\* empty, running is unchanged, and halted is unchanged (address 0 not being
\* a breakpoint).
C11_RetEmptyStack ==
    [][(InstrExecuted /\ InstAt(cpu).op = "RET" /\ cpu.stack = << >>)
          => /\ at' # "panicked"
             /\ cpu'.pc = 0
             /\ cpu'.stack = << >>
             /\ cpu'.running = cpu.running
             /\ cycles' = cycles + ExecuteCost
             /\ (0 \notin breakpoints => halted' = halted)]_vars

\* C11 witness: ProgRecurse has unwound all of its calls and its final RET
\* found the stack empty: the CPU is still running, inside tick, at pc 0
C11_Witness ==
    /\ at = "while"
    /\ steps >= 1
    /\ cpu.running
    /\ cpu.pc = 0
    /\ cpu.stack = << >>
    /\ cpu.vx[0] = MaxStack

\* the opcode patterns C12 lists as matching no instruction: 5xy1..5xyF,
\* 8xy8..8xyD, 8xyF, 9xy1..9xyF, Exkk other than 9E/A1, and Fxkk with a
\* suffix that is not one of the Fx instructions
ListedInvalid(op) ==
    LET n1 == op \div 4096
        n == op % 16
        kk == op % 256
    IN  \/ n1 = 5 /\ n # 0
        \/ n1 = 8 /\ n \in (8..13) \cup {15}
        \/ n1 = 9 /\ n # 0
        \/ n1 = 14 /\ kk \notin {158, 161}
        \/ n1 = 15 /\ kk \notin {7, 10, 21, 24, 30, 41, 48, 51, 85, 101, 117, 133}

\* C12: when the opcode at pc matches no pattern, step() aborts: the thread
\* unwinds with pc not advanced and the cpu and the machine exactly as they
\* were; and once that has happened nothing executes any more.
C12_InvalidOpcodeFatal ==
    [][/\ at # "panicked"
       /\ (at = "while" /\ LoopCond(cpu, cycles) /\ ListedInvalid(Fetch(cpu)))
             => /\ InstAt(cpu) = InvalidOpcode
                /\ at' = "panicked"
                /\ cpu' = cpu
                /\ UNCHANGED << halted, breakpoints, cycles, steps, skipped,
                                stop, callsites >>]_vars

\* C12 witness: the one-instruction program 0x8FFF (8xyF) has panicked in
\* its first step, at the entry point and with the registers untouched
C12_Witness ==
    /\ at = "panicked"
    /\ Fetch(cpu) = 36863
    /\ ListedInvalid(Fetch(cpu))
    /\ cpu.pc = 512
    /\ steps = 0

\* C13: an opcode 0x0nnn decodes to CLS for 0x00E0, RET for 0x00EE, SCR for
\* 0x00FB, SCL for 0x00FC, EXIT for 0x00FD, LORES for 0x00FE, HIRES for
\* 0x00FF, SCD n for 0x00Cn, CLS again for the alias 0x0230, and SYS nnn for
\* every other value; and executing such a SYS changes nothing but pc.
C13_ZeroPrefixDecoding ==
    /\ [](LET op == Fetch(cpu)
          IN  op < 4096 =>
                InstAt(cpu) =
                    CASE op = 224 -> [op |-> "CLS"]
                      [] op = 238 -> [op |-> "RET"]
                      [] op = 251 -> [op |-> "SCR"]
                      [] op = 252 -> [op |-> "SCL"]
                      [] op = 253 -> [op |-> "EXIT"]
                      [] op = 254 -> [op |-> "LORES"]
                      [] op = 255 -> [op |-> "HIRES"]
                      [] op \in 192..207 -> [op |-> "SCD_n", n |-> op - 192]
                      [] op = 560 -> [op |-> "CLS"]
                      [] OTHER -> [op |-> "SYS_addr", addr |-> op])
    /\ [][(at = "while" /\ LoopCond(cpu, cycles) /\ Fetch(cpu) < 4096
             /\ Fetch(cpu) \notin {224, 238, 251, 252, 253, 254, 255, 560} \cup (192..207))
            => /\ InstrExecuted
               /\ cpu' = [cpu EXCEPT !.pc = @ + 2]
               /\ cycles' = cycles + ExecuteCost]_vars

\* C13 witness: the one-instruction program 0x00E1, next to CLS but not one
\* of the specific patterns, has executed as a SYS: only pc has moved
C13_Witness ==
    /\ steps = 1
    /\ cpu.pc = 514
    /\ MemRead(cpu.memory, 512) = 0
    /\ MemRead(cpu.memory, 513) = 225
    /\ cpu.running
    /\ cpu.vram.lit = {}

\* the standard opcode of each instruction variant with all operands zero
OpcodeBase ==
    [CLS |-> 224, RET |-> 238, SCR |-> 251, SCL |-> 252, EXIT |-> 253,
     LORES |-> 254, HIRES |-> 255, SCD_n |-> 192,
     SYS_addr |-> 0, JP_addr |-> 4096, CALL_addr |-> 8192,
     SE_Vx_kk |-> 12288, SNE_Vx_kk |-> 16384, SE_Vx_Vy |-> 20480,
     LD_Vx_kk |-> 24576, ADD_Vx_kk |-> 28672,
     LD_Vx_Vy |-> 32768, OR_Vx_Vy |-> 32769, AND_Vx_Vy |-> 32770,
     XOR_Vx_Vy |-> 32771, ADD_Vx_Vy |-> 32772, SUB_Vx_Vy |-> 32773,
     SHR_Vx_Vy |-> 32774, SUBN_Vx_Vy |-> 32775, SHL_Vx_Vy |-> 32782,
     SNE_Vx_Vy |-> 36864, LD_I_addr |-> 40960, JP_Vx_addr |-> 45056,
     RND_Vx_kk |-> 49152, DRW_Vx_Vy_n |-> 53248,
     SKP_Vx |-> 57502, SKNP_Vx |-> 57505,
     LD_Vx_DT |-> 61447, LD_Vx_K |-> 61450, LD_DT_Vx |-> 61461,
     LD_ST_Vx |-> 61464, ADD_I_Vx |-> 61470, LD_F_Vx |-> 61481,
     LD_HF_Vx |-> 61488, LD_B_Vx |-> 61491, LD_iI_Vx |-> 61525,
     LD_Vx_iI |-> 61541, SAVE_Vx |-> 61557, LOAD_Vx |-> 61573]

\* the standard encoding: x in the second nibble, y in the third, n in the
\* fourth, kk in the low byte, addr in the low twelve bits (Bnnn carries
\* only the address: its register is the address's top nibble)
Encode(instr) ==
    LET f == DOMAIN instr
    IN  OpcodeBase[instr.op]
        + (IF "addr" \in f THEN instr.addr
           ELSE IF "x" \in f THEN instr.x * 256 ELSE 0)
        + (IF "y" \in f THEN instr.y * 16 ELSE 0)
        + (IF "n" \in f THEN instr.n ELSE 0)
        + (IF "kk" \in f THEN instr.kk ELSE 0)

\* addresses tried as operands: around every specific 0x0-prefixed pattern,
\* and both ends of the first and the last page
RoundTripAddrs == (191..255) \cup {0, 1, 560, 561, 3840, 4095}

\* instruction values of every variant, with operands from the sets above
RoundTripInstructions ==
    {[op |-> o] : o \in {"CLS", "RET", "SCR", "SCL", "EXIT", "LORES", "HIRES"}}
    \cup {[op |-> "SCD_n", n |-> n] : n \in 0..15}
    \cup {[op |-> o, addr |-> a] :
              o \in {"SYS_addr", "JP_addr", "CALL_addr", "LD_I_addr"},
              a \in RoundTripAddrs}
    \cup {[op |-> "JP_Vx_addr", x |-> x, addr |-> a] :
              x \in DecodeRegs, a \in RoundTripAddrs}
    \cup {[op |-> o, x |-> x, kk |-> kk] :
              o \in {"SE_Vx_kk", "SNE_Vx_kk", "LD_Vx_kk", "ADD_Vx_kk", "RND_Vx_kk"},
              x \in DecodeRegs, kk \in OperandBytes}
    \cup {[op |-> o, x |-> x, y |-> y] :
              o \in {"SE_Vx_Vy", "LD_Vx_Vy", "OR_Vx_Vy", "AND_Vx_Vy", "XOR_Vx_Vy",
                     "ADD_Vx_Vy", "SUB_Vx_Vy", "SHR_Vx_Vy", "SUBN_Vx_Vy",
                     "SHL_Vx_Vy", "SNE_Vx_Vy"},
              x \in DecodeRegs, y \in OperandRegs}
    \cup {[op |-> "DRW_Vx_Vy_n", x |-> x, y |-> y, n |-> n] :
              x \in DecodeRegs, y \in OperandRegs, n \in {0, 1, 15}}
    \cup {[op |-> o, x |-> x] :
              o \in {"SKP_Vx", "SKNP_Vx", "LD_Vx_DT", "LD_Vx_K", "LD_DT_Vx",
                     "LD_ST_Vx", "ADD_I_Vx", "LD_F_Vx", "LD_HF_Vx", "LD_B_Vx",
                     "LD_iI_Vx", "LD_Vx_iI", "SAVE_Vx", "LOAD_Vx"},
              x \in DecodeRegs}

\* a SYS whose address makes its opcode one of the specific 0x0-prefixed
\* patterns, which the decoder matches first
ShadowedSys(instr) ==
    /\ instr.op = "SYS_addr"
    /\ instr.addr \in {224, 238, 251, 252, 253, 254, 255, 560} \cup (192..207)

\* a JP V0,addr value whose register field is not the address's top nibble:
\* the opcode Bnnn has no room for it
UnencodableJump(instr) ==
    instr.op = "JP_Vx_addr" /\ instr.x # instr.addr \div 256

\* C14 as stated: whenever the CPU is about to decode the word at the entry
\* point, every instruction value whose standard encoding is that word is
\* the value the decoder returns.
C14_RoundTrip ==
    (at = "while" /\ cpu.pc = 512) =>
        \A instr \in RoundTripInstructions :
            Fetch(cpu) = Encode(instr) => InstAt(cpu) = instr

\* C14 amended: the same for every instruction value except a SYS whose
\* opcode is one of the specific 0x0-prefixed patterns (it decodes to that
\* pattern's instruction) and a JP V0,addr value whose register field
\* differs from the top nibble of its address.
C14_RoundTripUnshadowed ==
    (at = "while" /\ cpu.pc = 512) =>
        \A instr \in RoundTripInstructions :
            (Fetch(cpu) = Encode(instr) /\ ~ShadowedSys(instr) /\ ~UnencodableJump(instr))
                => InstAt(cpu) = instr

\* C14 witness: DRW V0,VF,1, encoded as 0xD0F1, has been loaded, decoded
\* and executed: it drew the top row 0xF0 of the font glyph at I = 0 in the
\* top left corner of the screen
C14_Witness ==
    /\ steps = 1
    /\ cpu.pc = 514
    /\ MemRead(cpu.memory, 512) * 256 + MemRead(cpu.memory, 513)
          = Encode([op |-> "DRW_Vx_Vy_n", x |-> 0, y |-> 15, n |-> 1])
    /\ cpu.vram.lit = {0, 1, 2, 3}

\* the instruction just executed, when it was not a jump: the one before pc
LastInst(c) == Parse(MemRead(c.memory, c.pc - 2) * 256 + MemRead(c.memory, c.pc - 1))

\* C15 as stated: ADD Vx,Vy with a = Vx and b = Vy before leaves
\* Vx = (a + b) mod 256 and VF = 1 if a + b > 255, else VF = 0.
C15_AddCarry ==
    [][(InstrExecuted /\ InstAt(cpu).op = "ADD_Vx_Vy") =>
          LET inst == InstAt(cpu)
              a == cpu.vx[inst.x]
              b == cpu.vx[inst.y]
          IN  /\ cpu'.vx[inst.x] = (a + b) % 256
              /\ cpu'.vx[15] = IF a + b > 255 THEN 1 ELSE 0]_vars

\* C15 amended: ADD Vx,Vy leaves VF = 1 if a + b > 255, else VF = 0, for
\* every x; and Vx = (a + b) mod 256 when x is not 0xF (when it is, the flag
\* is what the register holds).
C15_AddCarryNotVF ==
    [][(InstrExecuted /\ InstAt(cpu).op = "ADD_Vx_Vy") =>
          LET inst == InstAt(cpu)
              a == cpu.vx[inst.x]
              b == cpu.vx[inst.y]
          IN  /\ inst.x # 15 => cpu'.vx[inst.x] = (a + b) % 256
              /\ cpu'.vx[15] = IF a + b > 255 THEN 1 ELSE 0]_vars

\* C15 witness: ADD V0,V1 has just added 255 and 128: V0 holds 383 - 256
\* and VF the carry
C15_Witness ==
    /\ steps = 4
    /\ LastInst(cpu) = [op |-> "ADD_Vx_Vy", x |-> 0, y |-> 1]
    /\ cpu.vx[0] = 127
    /\ cpu.vx[1] = 128
    /\ cpu.vx[15] = 1

\* C16 as stated: SUB Vx,Vy with a = Vx and b = Vy before leaves
\* Vx = (a - b) mod 256 and VF = 1 iff a >= b; SUBN Vx,Vy leaves
\* Vx = (b - a) mod 256 and VF = 1 iff b >= a; both leave Vy = b.
C16_SubBorrow ==
    [][(InstrExecuted /\ InstAt(cpu).op \in {"SUB_Vx_Vy", "SUBN_Vx_Vy"}) =>
          LET inst == InstAt(cpu)
              a == cpu.vx[inst.x]
              b == cpu.vx[inst.y]
              m == IF inst.op = "SUB_Vx_Vy" THEN a ELSE b
              s == IF inst.op = "SUB_Vx_Vy" THEN b ELSE a
          IN  /\ cpu'.vx[inst.x] = (m - s) % 256
              /\ cpu'.vx[15] = IF m >= s THEN 1 ELSE 0
              /\ cpu'.vx[inst.y] = b]_vars

\* C16 amended: SUB Vx,Vy leaves VF = 1 iff a >= b and SUBN Vx,Vy leaves
\* VF = 1 iff b >= a, for every x and y; Vx is (a - b) mod 256, respectively
\* (b - a) mod 256, when x is not 0xF; and Vy is still b when y is neither x
\* nor 0xF.
C16_SubBorrowDistinct ==
    [][(InstrExecuted /\ InstAt(cpu).op \in {"SUB_Vx_Vy", "SUBN_Vx_Vy"}) =>
          LET inst == InstAt(cpu)
              a == cpu.vx[inst.x]
              b == cpu.vx[inst.y]
              m == IF inst.op = "SUB_Vx_Vy" THEN a ELSE b
              s == IF inst.op = "SUB_Vx_Vy" THEN b ELSE a
          IN  /\ inst.x # 15 => cpu'.vx[inst.x] = (m - s) % 256
              /\ cpu'.vx[15] = IF m >= s THEN 1 ELSE 0
              /\ inst.y \notin {inst.x, 15} => cpu'.vx[inst.y] = b]_vars

\* C16 witness: SUBN V0,V1 has just subtracted V0 = 128 from V1 = 1:
\* V0 holds 1 - 128 + 256, VF reports the borrow, V1 is still 1
C16_Witness ==
    /\ steps = 4
    /\ LastInst(cpu) = [op |-> "SUBN_Vx_Vy", x |-> 0, y |-> 1]
    /\ cpu.vx[0] = 129
    /\ cpu.vx[1] = 1
    /\ cpu.vx[15] = 0

\* v shifted by one bit as op does: right for SHR, left within 8 bits for SHL
Shifted(op, v) == IF op = "SHR_Vx_Vy" THEN v \div 2 ELSE (v * 2) % 256

\* the bit of v that op shifts out: bit 0 for SHR, bit 7 for SHL
ShiftedOut(op, v) == IF op = "SHR_Vx_Vy" THEN v % 2 ELSE v \div 128

\* C17 as stated: with shifting clear, SHR/SHL Vx,Vy leave in Vx the value
\* Vy had, shifted by one bit, and Vy as it was; with shifting set they
\* leave in Vx the value Vx had, shifted by one bit; in both cases VF is
\* the bit shifted out of the value that was shifted.
C17_Shift ==
    [][(InstrExecuted /\ InstAt(cpu).op \in {"SHR_Vx_Vy", "SHL_Vx_Vy"}) =>
          LET inst == InstAt(cpu)
              a == cpu.vx[inst.x]
              b == cpu.vx[inst.y]
              v == IF cpu.quirks.shifting THEN a ELSE b
          IN  /\ cpu'.vx[inst.x] = Shifted(inst.op, v)
              /\ cpu'.vx[15] = ShiftedOut(inst.op, v)
              /\ ~cpu.quirks.shifting => cpu'.vx[inst.y] = b]_vars

\* C17 amended: VF is the bit shifted out of the value that was shifted (Vy's
\* with shifting clear, Vx's own with shifting set) for every x and y; Vx is
\* that value shifted by one bit when x is not 0xF; and with shifting clear
\* Vy is as it was when y is neither x nor 0xF.
C17_ShiftDistinct ==
    [][(InstrExecuted /\ InstAt(cpu).op \in {"SHR_Vx_Vy", "SHL_Vx_Vy"}) =>
          LET inst == InstAt(cpu)
              a == cpu.vx[inst.x]
              b == cpu.vx[inst.y]
              v == IF cpu.quirks.shifting THEN a ELSE b
          IN  /\ inst.x # 15 => cpu'.vx[inst.x] = Shifted(inst.op, v)
              /\ cpu'.vx[15] = ShiftedOut(inst.op, v)
              /\ (~cpu.quirks.shifting /\ inst.y \notin {inst.x, 15})
                    => cpu'.vx[inst.y] = b]_vars

\* C17 witness: with shifting clear, SHR V0,V1 has just shifted V1 = 255
\* into V0 (which held 0): V0 is 127, VF the bit shifted out, V1 still 255
C17_Witness ==
    /\ steps = 4
    /\ ~cpu.quirks.shifting
    /\ LastInst(cpu) = [op |-> "SHR_Vx_Vy", x |-> 0, y |-> 1]
    /\ cpu.vx[0] = 127
    /\ cpu.vx[1] = 255
    /\ cpu.vx[15] = 1

\* C20: AND/OR/XOR Vx,Vy leave the bitwise result in Vx for x other than
\* 0xF; with vf_reset set VF is 0 afterwards (whatever x is); with vf_reset
\* clear VF keeps its value for x other than 0xF, and for x = 0xF it is the
\* register the result goes to.
C20_BitwiseVfReset ==
    [][(InstrExecuted /\ InstAt(cpu).op \in {"AND_Vx_Vy", "OR_Vx_Vy", "XOR_Vx_Vy"}) =>
          LET inst == InstAt(cpu)
              a == cpu.vx[inst.x]
              b == cpu.vx[inst.y]
              r == CASE inst.op = "AND_Vx_Vy" -> BitAnd(a, b)
                     [] inst.op = "OR_Vx_Vy" -> BitOr(a, b)
                     [] inst.op = "XOR_Vx_Vy" -> BitXor(a, b)
          IN  /\ inst.x # 15 => cpu'.vx[inst.x] = r
              /\ cpu.quirks.vf_reset => cpu'.vx[15] = 0
              /\ (~cpu.quirks.vf_reset /\ inst.x # 15) => cpu'.vx[15] = cpu.vx[15]
              /\ (~cpu.quirks.vf_reset /\ inst.x = 15) => cpu'.vx[15] = r]_vars

\* C20 witness: with vf_reset clear, XOR V0,V1 has just combined 255 and
\* 128 into V0 = 127 and VF still holds the 0x55 loaded at the start
C20_Witness ==
    /\ steps = 4
    /\ ~cpu.quirks.vf_reset
    /\ LastInst(cpu) = [op |-> "XOR_Vx_Vy", x |-> 0, y |-> 1]
    /\ cpu.vx[0] = 127
    /\ cpu.vx[1] = 128
    /\ cpu.vx[15] = 85

\* C18: ADD I,Vx with s = I + Vx, computed in 16 bits, leaves VF = 1 if
\* s > 0x0FFF, else VF = 0, and I = s mod 4096.
C18_AddIndex ==
    [][(InstrExecuted /\ InstAt(cpu).op = "ADD_I_Vx") =>
          LET s == (cpu.i + cpu.vx[InstAt(cpu).x]) % 65536
          IN  /\ cpu'.vx[15] = IF s > 4095 THEN 1 ELSE 0
              /\ cpu'.i = s % 4096]_vars

\* C18 witness: ADD I,V0 has just added V0 = 1 to I = 0x0FFF: I has wrapped
\* to 0 and VF is set
C18_Witness ==
    /\ steps = 3
    /\ LastInst(cpu) = [op |-> "ADD_I_Vx", x |-> 0]
    /\ cpu.vx[0] = 1
    /\ cpu.i = 0
    /\ cpu.vx[15] = 1

\* C19: after an instruction that does arithmetic on I (ADD I,Vx, and
\* LD [I],Vx and LD Vx,[I], which advance I under the memory quirk), I is at
\* most 0x0FFF.
C19_IndexMasked ==
    [][(InstrExecuted /\ InstAt(cpu).op \in {"ADD_I_Vx", "LD_iI_Vx", "LD_Vx_iI"})
          => cpu'.i <= 4095]_vars

\* C21: LD [I],Vx writes V0..Vx to memory[(I + k) mod 4096], k = 0..x, and
\* changes no other memory cell and no register; LD Vx,[I] reads those
\* cells into V0..Vx and changes no other register and no memory cell;
\* either leaves I advanced by x + 1 under the memory quirk and as it was
\* without it.
C21_StoreLoadRegs ==
    [][(InstrExecuted /\ InstAt(cpu).op \in {"LD_iI_Vx", "LD_Vx_iI"}) =>
          LET x == InstAt(cpu).x
              cells == {(cpu.i + k) % 4096 : k \in 0..x}
          IN  /\ cpu'.i = IF cpu.quirks.memory THEN cpu.i + x + 1 ELSE cpu.i
              /\ IF InstAt(cpu).op = "LD_iI_Vx"
                 THEN /\ \A k \in 0..x :
                           MemRead(cpu'.memory, (cpu.i + k) % 4096) = cpu.vx[k]
                      /\ \A a \in (0..4095) \ cells :
                           MemRead(cpu'.memory, a) = MemRead(cpu.memory, a)
                      /\ cpu'.vx = cpu.vx
                 ELSE /\ \A k \in 0..x :
                           cpu'.vx[k] = MemRead(cpu.memory, (cpu.i + k) % 4096)
                      /\ \A k \in (x + 1)..15 : cpu'.vx[k] = cpu.vx[k]
                      /\ \A a \in 0..4095 :
                           MemRead(cpu'.memory, a) = MemRead(cpu.memory, a)]_vars

\* C21 witness: under the memory quirk LD [I],V1 has just stored V0 = 0 and
\* V1 = 255 from I = 0x0FFF: the second cell is address 0, and I is 0x1001
C21_Witness ==
    /\ steps = 3
    /\ cpu.quirks.memory
    /\ LastInst(cpu) = [op |-> "LD_iI_Vx", x |-> 1]
    /\ cpu.vx[1] = 255
    /\ MemRead(cpu.memory, 4095) = 0
    /\ MemRead(cpu.memory, 0) = 255
    /\ cpu.i = 4097

\* C22: while no key is held, a step of LD Vx,K returns at the usual cost
\* and leaves the whole cpu, pc included, as it was, so the same instruction
\* is retried by the next step, in this tick or a later one; the tick still
\* ends by decrementing the timers.  A step of it with a key held stores the
\* lowest-indexed held key in Vx, moves pc past the instruction and changes
\* nothing else.
C22_KeyWait ==
    /\ [][(InstrExecuted /\ InstAt(cpu).op = "LD_Vx_K") =>
            /\ cycles' = cycles + ExecuteCost
            /\ IF \A k \in 0..15 : ~cpu.keys[k]
               THEN cpu' = cpu
               ELSE \E k \in 0..15 :
                      /\ cpu.keys[k]
                      /\ \A j \in 0..(k - 1) : ~cpu.keys[j]
                      /\ cpu' = [cpu EXCEPT !.vx[InstAt(cpu).x] = k,
                                            !.pc = @ + 2]]_vars
    /\ [][(at = "timers" /\ InstAt(cpu).op = "LD_Vx_K") =>
            /\ cpu'.pc = cpu.pc
            /\ cpu'.vx = cpu.vx
            /\ cpu'.dt = Dec0(cpu.dt)]_vars

\* C22 witness: ProgKeyWait waited through at least three ticks (the delay
\* timer has run down from 3 to 0), then found keys 3 and 7 both held and
\* stored 3 in V1
C22_Witness ==
    /\ cpu.pc = 518
    /\ cpu.keys[3]
    /\ cpu.keys[7]
    /\ cpu.vx[1] = 3
    /\ cpu.dt = 0
    /\ cpu.running

\* C23: CLS leaves every cell of the video buffer false, whatever it held
\* (so a second CLS changes nothing), and leaves width, height and the
\* buffer's length as they were.
C23_ClsClears ==
    [][(InstrExecuted /\ InstAt(cpu).op = "CLS") =>
          /\ cpu'.vram.lit = {}
          /\ cpu'.vram.len = cpu.vram.len
          /\ cpu'.width = cpu.width
          /\ cpu'.height = cpu.height
          /\ (cpu.vram.lit = {} => cpu'.vram = cpu.vram)]_vars

\* C23 witness: in high resolution the 16x16 sprite was drawn in the top
\* left corner and the first CLS has just executed: nothing is lit
C23_Witness ==
    /\ steps = 5
    /\ LastInst(cpu).op = "CLS"
    /\ InstAt(cpu).op = "CLS"
    /\ cpu.hires
    /\ cpu.vram.len = 128 * 64
    /\ MemRead(cpu.memory, 519) = 16
    /\ cpu.vx[0] = 0
    /\ cpu.vx[1] = 0
    /\ cpu.vram.lit = {}

\* C24: LORES sets (width, height) to (64, 32) and HIRES to (128, 64), and
\* after either no cell of the video buffer is lit, whatever it held before.
C24_ResolutionClears ==
    [][(InstrExecuted /\ InstAt(cpu).op \in {"LORES", "HIRES"}) =>
          /\ << cpu'.width, cpu'.height >> =
                IF InstAt(cpu).op = "LORES" THEN << 64, 32 >> ELSE << 128, 64 >>
          /\ cpu'.vram.lit = {}]_vars

\* C25: the video buffer's length is width * height, (width, height) is
\* (64, 32) or (128, 64), and hires is set exactly in the second case.
C25_BufferShape ==
    /\ cpu.vram.len = cpu.width * cpu.height
    /\ << cpu.width, cpu.height >> \in {<< 64, 32 >>, << 128, 64 >>}
    /\ cpu.hires <=> (<< cpu.width, cpu.height >> = << 128, 64 >>)

\* C25 witness: a program that began with HIRES and drew has just executed
\* LORES: the buffer is back to 64 * 32 cells
C25_Witness ==
    /\ MemRead(cpu.memory, 513) = 255
    /\ steps >= 5
    /\ LastInst(cpu).op = "LORES"
    /\ ~cpu.hires
    /\ cpu.width = 64
    /\ cpu.vram.len = 2048

\* the sprite DRW ..,n reads from memory at I: its width and number of rows
SpriteWidth(n) == IF n = 0 THEN 16 ELSE 8
SpriteRows(n) == IF n = 0 THEN 16 ELSE n

\* row r of that sprite as a number: one byte, or for the 16x16 sprite two
\* bytes, the first being the high one
SpriteRow(c, n, r) ==
    IF n = 0
    THEN MemRead(c.memory, (c.i + 2 * r) % 4096) * 256
         + MemRead(c.memory, (c.i + 2 * r + 1) % 4096)
    ELSE MemRead(c.memory, (c.i + r) % 4096)

\* the << row, column >> positions of the sprite whose bit is set: column 0
\* is the most significant bit of the row
SpriteSet(c, n) ==
    {p \in (0..(SpriteRows(n) - 1)) \X (0..(SpriteWidth(n) - 1)) :
        (SpriteRow(c, n, p[1]) \div Pow2(SpriteWidth(n) - 1 - p[2])) % 2 = 1}

\* the origin of the sprite of the DRW instruction inst
OriginX(c, inst) == c.vx[inst.x] % c.width
OriginY(c, inst) == c.vx[inst.y] % c.height

\* whether sprite position p, drawn from that origin, is on the screen
OnScreen(c, inst, p) ==
    OriginX(c, inst) + p[2] < c.width /\ OriginY(c, inst) + p[1] < c.height

\* the buffer cell of sprite position p, reduced modulo the screen size
CellOf(c, inst, p) ==
    ((OriginY(c, inst) + p[1]) % c.height) * c.width
    + ((OriginX(c, inst) + p[2]) % c.width)

\* C26: DRW Vx,Vy,n with n # 0 draws from the origin (Vx mod width,
\* Vy mod height): for every sprite position that falls on the screen the
\* pixel there is toggled if the sprite's bit is set and keeps its value if
\* it is clear; afterwards VF is 1 if some pixel of the buffer went from
\* set to unset and 0 otherwise (whatever VF held before); I and memory are
\* unchanged.
C26_DrawXor ==
    [][(InstrExecuted /\ InstAt(cpu).op = "DRW_Vx_Vy_n" /\ InstAt(cpu).n # 0) =>
          LET inst == InstAt(cpu)
              set == SpriteSet(cpu, inst.n)
          IN  /\ \A p \in (0..(inst.n - 1)) \X (0..7) :
                    OnScreen(cpu, inst, p) =>
                        LET k == CellOf(cpu, inst, p)
                        IN  (k \in cpu'.vram.lit) = ((k \in cpu.vram.lit) # (p \in set))
              /\ cpu'.vx[15] = IF cpu.vram.lit \ cpu'.vram.lit # {} THEN 1 ELSE 0
              /\ cpu'.i = cpu.i
              /\ cpu'.memory = cpu.memory]_vars

\* C26 witness: the glyph drawn in the top left corner was scrolled down
\* one row and a second DRW V0,V1,5 has just been drawn over it: it lit
\* the top row, erased the corner pixel of the row below (VF = 1) and left
\* the pixel next to it, whose sprite bit is clear, lit
C26_Witness ==
    /\ steps = 6
    /\ LastInst(cpu) = [op |-> "DRW_Vx_Vy_n", x |-> 0, y |-> 1, n |-> 5]
    /\ MemRead(cpu.memory, 519) = 21
    /\ MemRead(cpu.memory, 521) = 193
    /\ ~cpu.hires
    /\ cpu.vx[0] = 0
    /\ cpu.vx[1] = 0
    /\ cpu.vx[15] = 1
    /\ 0 \in cpu.vram.lit
    /\ 64 \notin cpu.vram.lit
    /\ 65 \in cpu.vram.lit

\* the cells a DRW toggles: those of the set sprite positions that are on
\* the screen and, under sprite_wrapping, those of the others, wrapped
DrawnCells(c, inst) ==
    {CellOf(c, inst, p) :
        p \in {q \in SpriteSet(c, inst.n) :
                  OnScreen(c, inst, q) \/ c.quirks.sprite_wrapping}}

\* C27: under sprite_wrapping a set sprite pixel whose column or row is off
\* the screen is drawn at (column mod width, row mod height); without it
\* such a pixel is neither drawn nor counted as a collision, and the pixels
\* on the screen are drawn all the same.  So the buffer changes in exactly
\* the cells of DrawnCells, and for an 8-wide sprite VF reports whether one
\* of them was lit.
C27_DrawOffScreen ==
    [][(InstrExecuted /\ InstAt(cpu).op = "DRW_Vx_Vy_n") =>
          LET inst == InstAt(cpu)
              drawn == DrawnCells(cpu, inst)
          IN  /\ cpu'.vram.lit = (cpu.vram.lit \ drawn) \cup (drawn \ cpu.vram.lit)
              /\ inst.n # 0 =>
                    cpu'.vx[15] = IF drawn \cap cpu.vram.lit # {} THEN 1 ELSE 0]_vars

\* C27 witness: under sprite_wrapping, in low resolution, DRW V0,V1,5 has
\* just drawn the glyph from column 62: its top row 0xF0 lit columns 62, 63
\* and, wrapped, columns 0 and 1 of the same row
C27_Witness ==
    /\ steps = 4
    /\ cpu.quirks.sprite_wrapping
    /\ ~cpu.hires
    /\ LastInst(cpu) = [op |-> "DRW_Vx_Vy_n", x |-> 0, y |-> 1, n |-> 5]
    /\ cpu.vx[0] = 62
    /\ cpu.vx[1] = 0
    /\ {62, 63, 0, 1} \subseteq cpu.vram.lit
    /\ cpu.vx[15] = 0

\* C28: DRW Vx,Vy,0 draws the 16x16 sprite whose row r is the big-endian
\* pair memory[I+2r], memory[I+2r+1], and afterwards VF is the collision
\* flag (1 if some pixel went from set to unset, else 0) plus the number of
\* sprite rows r with origin_y + r >= height, under either setting of
\* sprite_wrapping.
C28_BigSpriteFlag ==
    [][(InstrExecuted /\ InstAt(cpu).op = "DRW_Vx_Vy_n" /\ InstAt(cpu).n = 0) =>
          LET inst == InstAt(cpu)
              drawn == DrawnCells(cpu, inst)
              offBottom == {r \in 0..15 : OriginY(cpu, inst) + r >= cpu.height}
          IN  /\ cpu'.vram.lit = (cpu.vram.lit \ drawn) \cup (drawn \ cpu.vram.lit)
              /\ cpu'.vx[15] = (IF cpu.vram.lit \ cpu'.vram.lit # {} THEN 1 ELSE 0)
                                + Cardinality(offBottom)]_vars

\* whether the pixel at column col of row row is set
Pixel(c, col, row) == (row * c.width + col) \in c.vram.lit

TopSaved(x) == IF x < 7 THEN x ELSE 7

\* SAVE x copies V0..V(min(x,7)) into the scratch slots and changes neither
\* the slots above, nor a register, nor memory, nor I
SaveStep ==
    (InstrExecuted /\ InstAt(cpu).op = "SAVE_Vx") =>
        /\ \A r \in 0..7 :
              cpu'.save[r] = IF r <= TopSaved(InstAt(cpu).x) THEN cpu.vx[r] ELSE cpu.save[r]
        /\ cpu'.vx = cpu.vx
        /\ cpu'.memory = cpu.memory
        /\ cpu'.i = cpu.i

\* LOAD x copies the scratch slots 0..min(x,7) into V0..V(min(x,7)) and
\* changes neither a register above, nor a slot, nor memory, nor I
LoadStep ==
    (InstrExecuted /\ InstAt(cpu).op = "LOAD_Vx") =>
        /\ \A r \in 0..15 :
              cpu'.vx[r] = IF r <= TopSaved(InstAt(cpu).x) THEN cpu.save[r] ELSE cpu.vx[r]
        /\ cpu'.save = cpu.save
        /\ cpu'.memory = cpu.memory
        /\ cpu'.i = cpu.i

\* the value register r held when the SAVE at 0x206 ran: the program set V0
\* (byte 0x201), V7 (byte 0x203) and V8 (byte 0x205) and no other register
AtSave(c, r) ==
    CASE r = 0 -> MemRead(c.memory, 513)
      [] r = 7 -> MemRead(c.memory, 515)
      [] r = 8 -> MemRead(c.memory, 517)
      [] OTHER -> 0

\* the program's SAVE (at 0x206) and LOAD (at 0x20E) instructions
SaveInst(c) == Parse(MemRead(c.memory, 518) * 256 + MemRead(c.memory, 519))
LoadInst(c) == Parse(MemRead(c.memory, 526) * 256 + MemRead(c.memory, 527))

\* C30: SAVE x followed, after changes to the registers but no other SAVE,
\* by LOAD x restores V0..V(min(x,7)) to their values at the SAVE; LOAD x
\* leaves every register above min(x,7) unchanged, SAVE x leaves the scratch
\* slots above min(x,7) and all registers unchanged, and neither touches
\* main memory or I.
C30_SaveLoad ==
    /\ [][SaveStep /\ LoadStep]_vars
    /\ []((cpu.pc = 528 /\ SaveInst(cpu).x = LoadInst(cpu).x) =>
             \A r \in 0..TopSaved(LoadInst(cpu).x) : cpu.vx[r] = AtSave(cpu, r))

\* C30 witness: SAVE V7 ran with V0 = 1 and V7 = 0x77, the program then set
\* V0 = 2, V7 = 0x17 and V8 = 0x18, and LOAD V7 has just brought V0 and V7
\* back and left V8 as it was
C30_Witness ==
    /\ cpu.pc = 528
    /\ SaveInst(cpu) = InstX("SAVE_Vx", 7)
    /\ LastInst(cpu) = InstX("LOAD_Vx", 7)
    /\ MemRead(cpu.memory, 521) = 2
    /\ cpu.vx[0] = 1
    /\ cpu.vx[7] = 119
    /\ cpu.vx[8] = 24

\* the contents of cell a (0 <= a < 4096) of the memory array
Cell(m, a) == IF a \in DOMAIN m THEN m[a] ELSE MemReset(a)

\* 16-bit addresses and bytes the read and write functions are tried with
ProbeAddrs == {0, 4095, 4096, 4608, 65535}
ProbeBytes == {0, 255}

\* write(a, b) stores b in cell a mod 4096 and changes no other cell, and
\* read(a) and read(a + 4096) return cell a mod 4096
WriteReadWrap(m) ==
    \A a \in ProbeAddrs, b \in ProbeBytes :
        LET m2 == MemWrite(m, a, b)
        IN  /\ \A c \in 0..4095 : Cell(m2, c) = IF c = a % 4096 THEN b ELSE Cell(m, c)
            /\ MemRead(m, a) = Cell(m, a % 4096)
            /\ MemRead(m2, a) = b
            /\ MemRead(m2, (a + 4096) % 65536) = b

\* the opcode in the cells pc mod 4096 and (pc + 1) mod 4096
OpcodeAtPc(c) == Cell(c.memory, c.pc % 4096) * 256 + Cell(c.memory, (c.pc + 1) % 4096)

\* a step decodes the opcode in those cells: it aborts exactly when that
\* opcode matches no pattern, and stops the program when it is EXIT
FetchWraps ==
    (at = "while" /\ LoopCond(cpu, cycles)) =>
        /\ (at' = "panicked") = (Parse(OpcodeAtPc(cpu)) = InvalidOpcode)
        /\ Parse(OpcodeAtPc(cpu)).op = "EXIT" => ~cpu'.running
        /\ Parse(OpcodeAtPc(cpu)).op = "JP_addr" => cpu'.pc = Parse(OpcodeAtPc(cpu)).addr

\* LD [I],Vx stores Vk in cell (I + k) mod 4096 for k in 0..x and changes
\* no other cell; LD Vx,[I] loads Vk from that cell
IndexWraps ==
    /\ (InstrExecuted /\ InstAt(cpu).op = "LD_iI_Vx") =>
          \A c \in 0..4095 :
              Cell(cpu'.memory, c) =
                  IF \E k \in 0..InstAt(cpu).x : (cpu.i + k) % 4096 = c
                  THEN cpu.vx[CHOOSE k \in 0..InstAt(cpu).x : (cpu.i + k) % 4096 = c]
                  ELSE Cell(cpu.memory, c)
    /\ (InstrExecuted /\ InstAt(cpu).op = "LD_Vx_iI") =>
          \A k \in 0..InstAt(cpu).x : cpu'.vx[k] = Cell(cpu.memory, (cpu.i + k) % 4096)

\* C31: every memory access is taken modulo 4096 and never faults: for a
\* 16-bit address a, write(a, b) stores b in cell a mod 4096 and changes no
\* other cell, read(a) returns cell a mod 4096, and write(a, b) followed by
\* read(a + 4096) returns b; the same holds for the opcode fetch at pc and
\* pc + 1 and for the accesses relative to I.
C31_MemoryWraps ==
    /\ [](at = "idle" => WriteReadWrap(cpu.memory))
    /\ [][FetchWraps /\ IndexWraps]_vars

\* C31 witness: the front end wrote 0x00 and 0xFD at the addresses 0x1000
\* and 0x1001, JP 0xFFE ran through the SYS in the last two cells to
\* pc = 0x1000, and the step there fetched cells 0 and 1 and executed EXIT
C31_Witness ==
    /\ ~cpu.running
    /\ cpu.pc = 4098
    /\ Cell(cpu.memory, 0) = 0
    /\ Cell(cpu.memory, 1) = 253
    /\ Cell(cpu.memory, 4095) = 0
    /\ at # "panicked"

\* C32: a tick that is cut short still calls tick_timers.  Every tick()
\* that executed at least one step, whether it stopped at a breakpoint,
\* reached its budget or saw the program terminate, leaves its loop for the
\* tick_timers call and returns only through it, and that call decrements
\* dt and st by exactly 1 (a timer at 0 staying 0); the timers change
\* nowhere else in a tick except by the instructions that load them.
C32_TimersAfterCutShort ==
    /\ [][(InstrExecuted /\ (halted' \/ cycles' >= cpu'.clock_speed \div 6000))
            => at' = "timers"]_vars
    /\ [][(at = "while" /\ steps >= 1 /\ ~cpu.running) => at' = "timers"]_vars
    /\ [][(at # "idle" /\ at' = "idle")
            => /\ at = "timers"
               /\ cpu' = [cpu EXCEPT !.dt = Dec0(cpu.dt), !.st = Dec0(cpu.st)]]_vars
    /\ [][(at = "timers") => at' = "idle"]_vars
    /\ [][(at # "timers")
            => /\ (cpu'.dt # cpu.dt) => (InstrExecuted /\ InstAt(cpu).op = "LD_DT_Vx")
               /\ (cpu'.st # cpu.st) => (InstrExecuted /\ InstAt(cpu).op = "LD_ST_Vx")]_vars

\* C32 witness: a tick loaded both timers with 64, was stopped by the
\* breakpoint at 0x200 before its budget was used up, and has returned:
\* the timers read 63
C32_Witness ==
    /\ at = "idle"
    /\ halted
    /\ cpu.pc = 512
    /\ 512 \in breakpoints
    /\ cpu.vx[0] = 64
    /\ cpu.dt = 63
    /\ cpu.st = 63

\* the breakpoint test follows a step and never precedes one: a tick() called
\* while running and not halted enters its loop whatever pc is, the first
\* pass of the loop executes the instruction at pc even when pc is a
\* breakpoint address, and halted is set only by a step that ends on one
PostStepTest ==
    /\ (TickCalled /\ cpu.running /\ ~halted)
          => (at' = "while" /\ ~halted' /\ cpu' = cpu)
    /\ (at = "while" /\ steps = 0 /\ cpu.pc \in breakpoints)
          => (~halted /\ cpu.running /\ (InstrExecuted \/ at' = "panicked"))
    /\ (halted' /\ ~halted)
          => (InstrExecuted /\ cpu'.pc \in breakpoints /\ at' = "timers")
    /\ (at = "timers" /\ halted) => steps >= 1

\* a tick halts again where it started, after a single instruction
HaltsInPlace == InstrExecuted /\ steps = 0 /\ halted' /\ cpu'.pc = cpu.pc

\* no key is held
NoKeyHeld(c) == \A k \in 0..15 : ~c.keys[k]

C34_DisplayWait ==
    /\ [][(InstrExecuted /\ InstAt(cpu).op = "DRW_Vx_Vy_n" /\ cpu.quirks.display_wait)
            => /\ cycles' = cycles + cpu.clock_speed \div 6000
               /\ cycles' >= cpu.clock_speed \div 6000
               /\ at' = "timers"]_vars
    /\ [][(InstrExecuted /\ cpu.quirks.display_wait /\ steps >= 1)
            => LastInst(cpu).op # "DRW_Vx_Vy_n"]_vars

\* C34 witness: under display_wait a tick executed three instructions and
\* then the DRW at 0x206, which ended it with the cycles of the three plus
\* the whole budget
C34_Witness ==
    /\ at = "timers"
    /\ cpu.quirks.display_wait
    /\ steps = 4
    /\ cpu.pc = 520
    /\ LastInst(cpu).op = "DRW_Vx_Vy_n"
    /\ cycles = 3 * 8 + cpu.clock_speed \div 6000

\* neither cell 0 nor cell 1 has been written since the reset
FontHeadIntact(c) == 0 \notin DOMAIN c.memory /\ 1 \notin DOMAIN c.memory

\* C35: RET on an empty stack sets pc = 0, and unless addresses 0 and 1
\* have been overwritten the next step there aborts: the font bytes 0xF0,
\* 0x90 form the opcode 0xF090, which matches no pattern.  The same abort
\* ends a run that continues linearly past 0xFFF: the step at 0xFFE leaves
\* pc = 0x1000, whose fetch reads addresses 0 and 1.
C35_FallsIntoFont ==
    /\ [][(InstrExecuted /\ InstAt(cpu).op = "RET" /\ cpu.stack = << >>)
            => cpu'.pc = 0]_vars
    /\ [][(InstrExecuted /\ cpu.pc = 4094 /\ InstAt(cpu).op = "SYS_addr")
            => cpu'.pc = 4096]_vars
    /\ [][(at = "while" /\ LoopCond(cpu, cycles) /\ cpu.pc \in {0, 4096}
            /\ FontHeadIntact(cpu))
            => /\ OpcodeAtPc(cpu) = 61584
               /\ Parse(61584) = InvalidOpcode
               /\ at' = "panicked"
               /\ cpu' = cpu]_vars

\* C35 witness: the program RET ran on a fresh machine, pc became 0, and
\* the next step aborted on the font bytes there
C35_Witness ==
    /\ at = "panicked"
    /\ cpu.pc = 0
    /\ cpu.stack = << >>
    /\ FontHeadIntact(cpu)
    /\ Cell(cpu.memory, 512) = 0
    /\ Cell(cpu.memory, 513) = 238

\* C36: DRW never reads or writes outside the video buffer: whatever Vx,
\* Vy, n, I, the resolution and sprite_wrapping are, the draw touches no
\* index at or past width * height, so the step does not abort, and the
\* buffer keeps its length and holds no cell outside it.
C36_DrawInBounds ==
    [][(at = "while" /\ LoopCond(cpu, cycles) /\ InstAt(cpu).op = "DRW_Vx_Vy_n") =>
          /\ ~Draw([cpu EXCEPT !.pc = U16(@ + 2)], InstAt(cpu)).oob
          /\ at' # "panicked"
          /\ InstrExecuted
          /\ cpu.vram.len = cpu.width * cpu.height
          /\ cpu'.vram.len = cpu.vram.len
          /\ cpu'.vram.lit \subseteq 0..(cpu.width * cpu.height - 1)]_vars

\* C36 witness: under sprite_wrapping, in high resolution, the solid 16x16
\* sprite was drawn from Vx = Vy = 255, that is from the bottom right
\* corner (127, 63): it lit that corner and, wrapped, the three others
C36_Witness ==
    /\ LastInst(cpu) = [op |-> "DRW_Vx_Vy_n", x |-> 0, y |-> 1, n |-> 0]
    /\ cpu.quirks.sprite_wrapping
    /\ cpu.hires
    /\ cpu.vx[0] = 255
    /\ cpu.vx[1] = 255
    /\ cpu.i = 524
    /\ cpu.vram.len = 8192
    /\ {8191, 8064, 127, 0} \subseteq cpu.vram.lit
    /\ Cardinality(cpu.vram.lit) = 256

\* C37: DRW is an involution on the video buffer.  When a DRW Vx,Vy,n with
\* x and y other than 0xF has executed, executing the same DRW again (I and
\* the sprite's memory being unchanged) gives back the buffer as it was
\* before the first draw, under both settings of sprite_wrapping and for
\* both sprite sizes; and if the first draw lit a pixel, the second one
\* leaves VF >= 1.
C37_DrawTwice ==
    [][(InstrExecuted /\ InstAt(cpu).op = "DRW_Vx_Vy_n"
        /\ InstAt(cpu).x # 15 /\ InstAt(cpu).y # 15) =>
          LET again == ExecDisplay(cpu', InstAt(cpu))
          IN  /\ cpu'.i = cpu.i
              /\ cpu'.memory = cpu.memory
              /\ again.vram = cpu.vram
              /\ (cpu'.vram.lit \ cpu.vram.lit # {}) => again.vx[15] >= 1]_vars

\* C37 witness: the program drew the 16x16 sprite at I = 0 from the top
\* left corner and then executed the same DRW V0,V1,0 again: the screen is
\* empty as before the first draw, and VF counts the rows that collided
C37_Witness ==
    /\ cpu.pc = 522
    /\ Cell(cpu.memory, 518) * 256 + Cell(cpu.memory, 519) = 53264
    /\ LastInst(cpu) = [op |-> "DRW_Vx_Vy_n", x |-> 0, y |-> 1, n |-> 0]
    /\ cpu.vx[0] = 0
    /\ cpu.vx[1] = 0
    /\ cpu.vram.lit = {}
    /\ cpu.vx[15] >= 2

\* C38: when the destination of a flag-producing instruction is VF itself,
\* the flag wins over the result: after ADD, SUB, SUBN, SHL or SHR VF,Vy
\* the register VF holds the carry, the no-borrow bit or the bit shifted
\* out (0 or 1), computed from the operands as they were, and not the
\* computed value; after AND, OR or XOR VF,Vy with vf_reset set VF is 0.
C38_FlagWins ==
    [][(InstrExecuted
        /\ InstAt(cpu).op \in {"ADD_Vx_Vy", "SUB_Vx_Vy", "SUBN_Vx_Vy", "SHL_Vx_Vy",
                                "SHR_Vx_Vy", "AND_Vx_Vy", "OR_Vx_Vy", "XOR_Vx_Vy"}
        /\ InstAt(cpu).x = 15) =>
          LET op == InstAt(cpu).op
              a == cpu.vx[15]
              b == cpu.vx[InstAt(cpu).y]
              v == IF cpu.quirks.shifting THEN a ELSE b
          IN  CASE op = "ADD_Vx_Vy" -> cpu'.vx[15] = IF a + b > 255 THEN 1 ELSE 0
                [] op = "SUB_Vx_Vy" -> cpu'.vx[15] = IF a >= b THEN 1 ELSE 0
                [] op = "SUBN_Vx_Vy" -> cpu'.vx[15] = IF b >= a THEN 1 ELSE 0
                [] op \in {"SHL_Vx_Vy", "SHR_Vx_Vy"} -> cpu'.vx[15] = ShiftedOut(op, v)
                [] OTHER -> cpu.quirks.vf_reset => cpu'.vx[15] = 0]_vars

\* C38 witness: ADD VF,V0 has just added VF = 255 and V0 = 128: VF holds
\* the carry 1 and not the sum 127
C38_Witness ==
    /\ steps = 4
    /\ LastInst(cpu) = [op |-> "ADD_Vx_Vy", x |-> 15, y |-> 0]
    /\ Cell(cpu.memory, 515) = 255
    /\ cpu.vx[0] = 128
    /\ cpu.vx[15] = 1

====
